---- MODULE Spec2Model ----
(***************************************************************************)
(* Traffic congestion core of Dynamic-Traffic-Route-Optimization:          *)
(*   utils/tracking.py   VehicleTrack, TrackManager                        *)
(*   utils/metrics.py    CongestionDetector                                *)
(*                                                                         *)
(* Numbers.  The Python code computes in floats.  The model computes in    *)
(* exact integer arithmetic: pixel coordinates are integers chosen so that *)
(* every centroid and every centroid distance is an integer (Half and Sqrt *)
(* below are exact on them and undefined elsewhere), and the scores, which *)
(* are fractions, are rationals <<numerator, denominator>>.                *)
(***************************************************************************)
EXTENDS Integers, Sequences, FiniteSets, TLC

VARIABLES
    tm,         \* the TrackManager instance (tracking.py:217-239)
    frame_idx,  \* the frame index the caller passes to the next update()
    live_frames, \* how many leading frames of the stream may carry detections
    absent_for, \* per id: update() calls since the id was last detected (-1: not tracked by the caller's account)
    lastUpdate, \* the arguments of the most recent update() call
    detector,   \* the CongestionDetector instance, None until one is constructed
    ctor_args,  \* the arguments of the most recent CongestionDetector(...) call
    fps,        \* the frame rate of the stream, passed to every analyze()
    metrics,    \* the CongestionMetrics the most recent analyze() returned
    raised,     \* the exception the most recent CongestionDetector call raised
    probe_in,   \* arguments for a direct call of one compute_*_score method
    probe_out,  \* the method called with them and the value it returned
    smoother,   \* a SpeedSmoother instance, None until one is constructed
    smooth_call, \* the argument and the return value of its most recent add_speed()
    n_calls,    \* add_speed() calls since the smoother was built or reset
    fresh,      \* from a reset() on: a newly built smoother given the same calls
    fresh_call, \* the argument and the return value of its most recent add_speed()
    estimator,  \* a speed estimator instance, None until one is constructed
    est_call,   \* the most recent estimator call: its arguments and its outcome
    orchestrator, \* the fields of a TrafficCongestionDetector, None where there is none
    pc          \* the call process_video() makes next

trackerVars == <<tm, frame_idx, live_frames, absent_for, lastUpdate>>

detectorVars == <<detector, ctor_args, fps, metrics, raised>>

probeVars == <<probe_in, probe_out>>

smootherVars == <<smoother, smooth_call, n_calls, fresh, fresh_call>>

estimatorVars == <<estimator, est_call>>

orchestratorVars == <<orchestrator, pc>>

vars == <<trackerVars, detectorVars, probeVars, smootherVars, estimatorVars, orchestratorVars>>

----------------------------------------------------------------------------
(* Bounds of the model *)

\* update() calls that may carry detections; later calls are empty frames
MaxFrame == 3

\* the same for a manager with the default max_age, whose tracks take 31
\* empty frames to age out
MaxFrameDefault == 2

\* remove_track() and clear() are called only while fewer tracks than this
\* have been archived
MaxCompleted == 1

\* the same for the stream the CongestionDetector analyses
MaxFrameDetector == 2

\* largest vehicle and stopped count passed to a compute_*_score method
MaxProbeCount == 3

MaxProbeScore == 20

MaxExtraCalls == 1

\* track identifiers the upstream tracker assigns
Ids == {1, 2}

----------------------------------------------------------------------------
(* Python values *)

\* None is the empty option, a value v is <<v>>
None == <<>>

Some(v) == <<v>>

Min(a, b) == IF a <= b THEN a ELSE b

Max(a, b) == IF a >= b THEN a ELSE b

Abs(a) == IF a >= 0 THEN a ELSE -a

\* no SpeedSmoother and no speed estimator has been constructed
NoOrchestrator == orchestrator = None /\ pc = "idle"

NoSpeedObjects ==
    /\ smoother = None /\ smooth_call = None /\ n_calls = 0
    /\ fresh = None /\ fresh_call = None
    /\ estimator = None /\ est_call = None

\* the value of e, computed once where it is bound
Value(e) == CHOOSE v \in {e} : TRUE

\* the element of a set of one element
TheOne(S) == CHOOSE v \in S : TRUE

RECURSIVE GCD(_, _)
GCD(a, b) == IF b = 0 THEN a ELSE GCD(b, a % b)

\* the fraction n / d (d # 0) in lowest terms, with a positive denominator
Rat(n, d) ==
    LET g == GCD(Abs(n), Abs(d))
        sgn == IF d < 0 THEN -1 ELSE 1
    IN <<sgn * (n \div g), sgn * (d \div g)>>

RInt(n) == <<n, 1>>

\* sums over the least common denominator, products after cancelling across,
\* so that the intermediate integers stay small
RAdd(a, b) ==
    LET g == GCD(a[2], b[2])
    IN Rat(a[1] * (b[2] \div g) + b[1] * (a[2] \div g), (a[2] \div g) * b[2])

RSub(a, b) == RAdd(a, <<-b[1], b[2]>>)

RMul(a, b) ==
    LET g1 == GCD(Abs(a[1]), b[2])
        g2 == GCD(Abs(b[1]), a[2])
    IN Rat((a[1] \div g1) * (b[1] \div g2), (a[2] \div g2) * (b[2] \div g1))

\* a / b for b # 0
RDiv(a, b) == RMul(a, Rat(b[2], b[1]))

RLe(a, b) ==
    LET g == GCD(a[2], b[2])
    IN a[1] * (b[2] \div g) <= b[1] * (a[2] \div g)

RLt(a, b) ==
    LET g == GCD(a[2], b[2])
    IN a[1] * (b[2] \div g) < b[1] * (a[2] \div g)

RMin(a, b) == IF RLe(a, b) THEN a ELSE b

RMax(a, b) == IF RLe(b, a) THEN a ELSE b

\* n / 2 of tracking.py:98-99, exact: the inputs are chosen with even sums
\* (an odd n has no value here)
Half(n) == CHOOSE h \in {n \div 2} : 2 * h = n

\* np.sqrt of tracking.py:131, exact: the inputs are chosen to be squares
\* (any other n has no value here)
RECURSIVE SqrtFrom(_, _)
SqrtFrom(n, r) == IF r * r >= n THEN r ELSE SqrtFrom(n, r + 1)

Sqrt(n) == CHOOSE r \in {SqrtFrom(n, 0)} : r * r = n

\* DequeAppend as a plain list would do it: nothing is ever dropped
DequeAppend_unbounded(q, x, maxlen) == Append(q, x)

\* DequeAppend refusing the new entry when full, instead of dropping the oldest
DequeAppend_keep_oldest(q, x, maxlen) ==
    IF Len(q) >= maxlen THEN q ELSE Append(q, x)

\* collections.deque(maxlen=maxlen).append(x): the oldest entry is dropped
\* once the deque is full
DequeAppend(q, x, maxlen) ==
    IF maxlen = 0 THEN q
    ELSE IF Len(q) >= maxlen THEN Append(Tail(q), x)
    ELSE Append(q, x)

RECURSIVE SeqSum(_)
SeqSum(s) == IF s = <<>> THEN 0 ELSE Head(s) + SeqSum(Tail(s))

\* list(q)[-window:]
LastN(q, window) ==
    IF Len(q) <= window THEN q ELSE SubSeq(q, Len(q) - window + 1, Len(q))

\* {k: v for k, v in f.items() if k != id}
DropKey(f, id) == [k \in DOMAIN f \ {id} |-> f[k]]

\* f[id] = v, adding the key when it is missing
SetKey(f, id, v) == [k \in DOMAIN f \cup {id} |-> IF k = id THEN v ELSE f[k]]

----------------------------------------------------------------------------
(* Inputs *)

\* bounding boxes [x1, y1, x2, y2]: two 20 x 20 boxes whose centres,
\* (100,100) and (106,108), are 10 px apart, off both axes
BoxA == <<90, 90, 110, 110>>

BoxB == <<96, 98, 116, 118>>

\* what one detection carries besides its id: (bbox, class_id, class_name)
DetChoices == {<<BoxA, Some(2), Some("car")>>, <<BoxB, None, None>>}

\* the detections of one frame: each id at most once (ids are unique per frame)
DetectionLists == UNION {[S -> DetChoices] : S \in SUBSET Ids}

\* TrackManager(max_age, max_history): small capacities and the defaults
DefaultMaxAge == 30

DefaultMaxHistory == 30

\* <<max_age, max_history, frames of the stream that may carry detections>>
ManagerConfigs ==
    {<<0, 1, MaxFrame>>, <<1, 2, MaxFrame>>, <<2, 3, MaxFrame>>,
     <<DefaultMaxAge, DefaultMaxHistory, MaxFrameDefault>>}

----------------------------------------------------------------------------
(* VehicleTrack *)

VehicleTrack_init(track_id, max_history) ==
    [track_id |-> track_id, max_history |-> max_history,
     centroids |-> <<>>, bboxes |-> <<>>, frame_indices |-> <<>>,
     speeds_px |-> <<>>, speeds_real |-> <<>>,
     class_id |-> None, class_name |-> None,
     first_frame |-> None, last_frame |-> None,
     total_frames |-> 0, is_active |-> TRUE]

compute_centroid(bbox) == <<Half(bbox[1] + bbox[3]), Half(bbox[2] + bbox[4])>>

compute_bbox_area(bbox) == (bbox[3] - bbox[1]) * (bbox[4] - bbox[2])

\* the distance divided by the frames elapsed between the two observations
compute_speed_pixels_per_frame(t) ==
    IF Len(t.centroids) < 2 THEN 0
    ELSE LET p == t.centroids[Len(t.centroids) - 1]
             q == t.centroids[Len(t.centroids)]
             elapsed == t.frame_indices[Len(t.frame_indices)] - t.frame_indices[Len(t.frame_indices) - 1]
         IN Sqrt((q[1] - p[1]) * (q[1] - p[1]) + (q[2] - p[2]) * (q[2] - p[2])) \div elapsed

compute_speed_pixels(t) ==
    IF Len(t.centroids) < 2 THEN 0
    ELSE LET p == t.centroids[Len(t.centroids) - 1]
             q == t.centroids[Len(t.centroids)]
         IN Sqrt((q[1] - p[1]) * (q[1] - p[1]) + (q[2] - p[2]) * (q[2] - p[2]))

\* HasPreviousPosition taking the first observation for a move as well
HasPreviousPosition_from_first(t) == Len(t.centroids) >= 1

\* "if len(self.centroids) >= 2" of tracking.py:82
HasPreviousPosition(t) == Len(t.centroids) >= 2

VehicleTrack_update(t, bbox, f, class_id, class_name) ==
    LET t1 == [t EXCEPT
                 !.centroids = DequeAppend(@, compute_centroid(bbox), t.max_history),
                 !.bboxes = DequeAppend(@, bbox, t.max_history),
                 !.frame_indices = DequeAppend(@, f, t.max_history),
                 !.class_id = IF class_id # None THEN class_id ELSE @,
                 !.class_name = IF class_name # None THEN class_name ELSE @,
                 !.first_frame = IF @ = None THEN Some(f) ELSE @,
                 !.last_frame = Some(f),
                 !.total_frames = @ + 1]
    IN IF HasPreviousPosition(t1)
       THEN [t1 EXCEPT !.speeds_px = DequeAppend(@, compute_speed_pixels(t1), t.max_history)]
       ELSE t1

\* the sum and the count of the averaged speeds: np.mean(list(speeds_px)[-window:])
\* is RecentSpeedSum / RecentSpeedCount, and 0.0 when speeds_px is empty
RecentSpeedSum(t, window) == SeqSum(LastN(t.speeds_px, window))

RecentSpeedCount(t, window) == Len(LastN(t.speeds_px, window))

get_current_bbox(t) == IF t.bboxes # <<>> THEN Some(t.bboxes[Len(t.bboxes)]) ELSE None

get_current_centroid(t) == IF t.centroids # <<>> THEN Some(t.centroids[Len(t.centroids)]) ELSE None

----------------------------------------------------------------------------
(* TrackManager *)

TrackManager_init(max_age, max_history) ==
    [max_age |-> max_age, max_history |-> max_history,
     tracks |-> <<>>, track_ages |-> <<>>, completed_tracks |-> <<>>,
     total_tracks_created |-> 0, total_tracks_completed |-> 0]

\* remove_track forgetting "del self.track_ages[track_id]"
remove_track_keep_age(m, track_id) ==
    IF track_id \in DOMAIN m.tracks
    THEN [m EXCEPT
            !.completed_tracks = Append(@, [m.tracks[track_id] EXCEPT !.is_active = FALSE]),
            !.tracks = DropKey(@, track_id),
            !.total_tracks_completed = @ + 1]
    ELSE m

\* the removal that leaves the archived track marked active
remove_track_still_active(m, track_id) ==
    IF track_id \in DOMAIN m.tracks
    THEN [m EXCEPT
            !.completed_tracks = Append(@, m.tracks[track_id]),
            !.tracks = DropKey(@, track_id),
            !.track_ages = DropKey(@, track_id),
            !.total_tracks_completed = @ + 1]
    ELSE m

remove_track(m, track_id) ==
    IF track_id \in DOMAIN m.tracks
    THEN [m EXCEPT
            !.completed_tracks = Append(@, [m.tracks[track_id] EXCEPT !.is_active = FALSE]),
            !.tracks = DropKey(@, track_id),
            !.track_ages = DropKey(@, track_id),
            !.total_tracks_completed = @ + 1]
    ELSE m

\* the pass that leaves the miss-age of an id it already tracks as it was
DetectOne_keep_age(m, track_id, det, f) ==
    LET m1 == IF track_id \notin DOMAIN m.tracks
              THEN [m EXCEPT
                      !.tracks = SetKey(@, track_id, VehicleTrack_init(track_id, m.max_history)),
                      !.track_ages = SetKey(@, track_id, 0),
                      !.total_tracks_created = @ + 1]
              ELSE m
    IN [m1 EXCEPT
          !.tracks = SetKey(@, track_id, VehicleTrack_update(m1.tracks[track_id], det[1], f, det[2], det[3]))]

\* one pass of the loop of tracking.py:253-265
DetectOne(m, track_id, det, f) ==
    LET m1 == IF track_id \notin DOMAIN m.tracks
              THEN [m EXCEPT
                      !.tracks = SetKey(@, track_id, VehicleTrack_init(track_id, m.max_history)),
                      !.total_tracks_created = @ + 1]
              ELSE m
    IN [m1 EXCEPT
          !.tracks = SetKey(@, track_id, VehicleTrack_update(m1.tracks[track_id], det[1], f, det[2], det[3])),
          !.track_ages = SetKey(@, track_id, 0)]

RECURSIVE DetectAll(_, _, _, _)
DetectAll(m, detections, ids, f) ==
    IF ids = {} THEN m
    ELSE LET id == CHOOSE i \in ids : \A j \in ids : i <= j
         IN DetectAll(DetectOne(m, id, detections[id], f), detections, ids \ {id}, f)

\* IsAged without the test "track_id not in detected_ids"
IsAged_all(track_id, detected_ids) == TRUE

\* whether the ageing loop of tracking.py:269-275 ages this id
IsAged(track_id, detected_ids) == track_id \notin detected_ids

\* AgedOut one frame late
AgedOut_late(age, max_age) == age > max_age + 1

\* AgedOut with >= for >: eviction one frame early
AgedOut_early(age, max_age) == age >= max_age

\* whether an aged id is put on tracks_to_remove (tracking.py:274)
AgedOut(age, max_age) == age > max_age

RECURSIVE RemoveAll(_, _)
RemoveAll(m, ids) ==
    IF ids = {} THEN m
    ELSE LET id == CHOOSE i \in ids : \A j \in ids : i <= j
         IN RemoveAll(remove_track(m, id), ids \ {id})

TrackManager_update(m, detections, f) ==
    LET detected_ids == DOMAIN detections
        m1 == DetectAll(m, detections, detected_ids, f)
        aged == {id \in DOMAIN m1.tracks : IsAged(id, detected_ids)}
        ages == [id \in DOMAIN m1.track_ages \cup aged |->
                   IF id \in aged
                   THEN (IF id \in DOMAIN m1.track_ages THEN m1.track_ages[id] ELSE 0) + 1
                   ELSE m1.track_ages[id]]
        m2 == [m1 EXCEPT !.track_ages = ages]
        tracks_to_remove == {id \in aged : AgedOut(ages[id], m.max_age)}
    IN RemoveAll(m2, tracks_to_remove)

get_active_tracks(m) == {m.tracks[id] : id \in DOMAIN m.tracks}

clear(m) == RemoveAll(m, DOMAIN m.tracks)

----------------------------------------------------------------------------
(* CongestionDetector.  Weights and classification thresholds are held in
   units of 1e-5 (Unit stands for 1.0); every other fraction is a rational. *)

Unit == 100000

\* CongestionLevel, in the order of the enum
Levels == <<"FREE_FLOW", "LIGHT", "MODERATE", "HEAVY", "TRAFFIC_JAM">>

\* self.thresholds of metrics.py:122-128, in the dict's insertion order
DefaultThresholds ==
    <<<<"FREE_FLOW", 0, 20000>>, <<"LIGHT", 20000, 40000>>,
      <<"MODERATE", 40000, 60000>>, <<"HEAVY", 60000, 80000>>,
      <<"TRAFFIC_JAM", 80000, 100000>>>>

\* the table of the docstring of customize_thresholds (metrics.py:377-383)
ExampleThresholds ==
    <<<<"FREE_FLOW", 0, 15000>>, <<"LIGHT", 15000, 35000>>,
      <<"MODERATE", 35000, 55000>>, <<"HEAVY", 55000, 75000>>,
      <<"TRAFFIC_JAM", 75000, 100000>>>>

ThresholdTables == {DefaultThresholds, ExampleThresholds}

DefaultFps == <<30, 1>>

\* frame rates of a stream: the default 30 and one frame every 20 seconds
FpsChoices == {DefaultFps, <<1, 20>>}

\* the default of analyze()'s expected_flow (metrics.py:174)
DefaultExpectedFlow == 30

\* the four weights (density, speed, flow, queue): the defaults; the
\* spec's 0.4 + 0.4 + 0.4 + 0.1; sums of 1.00001 and 0.99998; a negative weight
WeightChoices ==
    {<<35000, 35000, 20000, 10000>>, <<40000, 40000, 40000, 10000>>,
     <<35000, 35000, 20000, 10001>>, <<35000, 35000, 20000, 9998>>,
     <<150000, -50000, 0, 0>>}

\* (roi_area, max_vehicles, max_speed, stopped_threshold): the defaults, and
\* a region that two tracked boxes overfill
CapacityChoices == {<<307200, 50, 100, 2>>, <<600, 1, 5, 2>>}

\* (width, height) passed to set_roi_area
FrameSizes == {<<640, 480>>, <<30, 20>>}

\* isclose without any test: every weight set is accepted
isclose_always(a, b) == TRUE

\* np.isclose(a, b) of metrics.py:113 with numpy's defaults rtol = 1e-05 and
\* atol = 1e-08: |a - b| <= atol + rtol * |b|.  With a and b in units of 1e-5
\* that is |a - b| * 100000 <= 100 + |b|, and |a - b| is a whole number
isclose(a, b) == Abs(a - b) <= (100 + Abs(b)) \div 100000

\* CongestionDetector(...): <<the new detector or None, the exception or None>>
CongestionDetector_init(capacity, weights) ==
    LET total_weight == weights[1] + weights[2] + weights[3] + weights[4]
    IN IF ~isclose(total_weight, Unit)
       THEN <<None, Some("ValueError")>>
       ELSE <<Some([roi_area |-> capacity[1], max_vehicles |-> capacity[2],
                    max_speed |-> capacity[3], stopped_threshold |-> capacity[4],
                    density_weight |-> weights[1], speed_weight |-> weights[2],
                    flow_weight |-> weights[3], queue_weight |-> weights[4],
                    vehicle_entry_count |-> 0, flow_window_frames |-> 0,
                    flow_window_duration |-> 60,
                    thresholds |-> DefaultThresholds]), None>>

ROne == RInt(1)

RZero == RInt(0)

\* the density score whose count share is not cut off at 1
compute_density_score_unclamped_count(d, vehicle_count, total_bbox_area) ==
    LET count_density == Rat(vehicle_count, d.max_vehicles)
        area_density == RMin(Rat(total_bbox_area, d.roi_area), ROne)
    IN RDiv(RAdd(count_density, area_density), RInt(2))

compute_density_score(d, vehicle_count, total_bbox_area) ==
    LET count_density == Value(RMin(Rat(vehicle_count, d.max_vehicles), ROne))
        area_density == Value(RMin(Rat(total_bbox_area, d.roi_area), ROne))
    IN RDiv(RAdd(count_density, area_density), RInt(2))

\* the ratio subtracted without its cap of 1
compute_speed_score_uncapped(d, average_speed) ==
    IF RLe(average_speed, RZero) THEN ROne
    ELSE RSub(ROne, RDiv(average_speed, RInt(d.max_speed)))

compute_speed_score(d, average_speed) ==
    IF RLe(average_speed, RZero) THEN ROne
    ELSE RSub(ROne, RMin(RDiv(average_speed, RInt(d.max_speed)), ROne))

compute_flow_score(d, flow_rate, expected_flow) ==
    IF RLe(flow_rate, RZero) THEN ROne
    ELSE RSub(ROne, RMin(RDiv(flow_rate, RInt(expected_flow)), ROne))

compute_queue_score(d, stopped_count, vehicle_count) ==
    IF vehicle_count = 0 THEN RZero
    ELSE Rat(stopped_count, vehicle_count)

compute_congestion_score(d, density_score, speed_score, flow_score, queue_score) ==
    RAdd(RAdd(RAdd(RMul(Rat(d.density_weight, Unit), density_score),
                   RMul(Rat(d.speed_weight, Unit), speed_score)),
              RMul(Rat(d.flow_weight, Unit), flow_score)),
         RMul(Rat(d.queue_weight, Unit), queue_score))

\* ClassifyFrom with closed bands: a score on a boundary stays in the lower band
RECURSIVE ClassifyFrom_closed(_, _, _)
ClassifyFrom_closed(thresholds, i, congestion_score) ==
    IF i > Len(thresholds) THEN "TRAFFIC_JAM"
    ELSE IF /\ RLe(Rat(thresholds[i][2], Unit), congestion_score)
            /\ RLe(congestion_score, Rat(thresholds[i][3], Unit))
         THEN thresholds[i][1]
         ELSE ClassifyFrom_closed(thresholds, i + 1, congestion_score)

RECURSIVE ClassifyFrom(_, _, _)
ClassifyFrom(thresholds, i, congestion_score) ==
    IF i > Len(thresholds) THEN "TRAFFIC_JAM"
    ELSE IF /\ RLe(Rat(thresholds[i][2], Unit), congestion_score)
            /\ RLt(congestion_score, Rat(thresholds[i][3], Unit))
         THEN thresholds[i][1]
         ELSE ClassifyFrom(thresholds, i + 1, congestion_score)

\* classification that keeps to the table the detector was built with
classify_congestion_default(d, congestion_score) == ClassifyFrom(DefaultThresholds, 1, congestion_score)

classify_congestion(d, congestion_score) == ClassifyFrom(d.thresholds, 1, congestion_score)

\* track.get_average_speed_pixels(window)
get_average_speed_pixels(t, window) ==
    IF t.speeds_px = <<>> THEN RZero
    ELSE Rat(RecentSpeedSum(t, window), RecentSpeedCount(t, window))

\* is_stopped that takes a track without speed samples as moving
is_stopped_measured(t, threshold) ==
    t.speeds_px # <<>> /\ RLt(get_average_speed_pixels(t, 5), RInt(threshold))

\* track.is_stopped(threshold), with its default window of 5
is_stopped(t, threshold) == RLt(get_average_speed_pixels(t, 5), RInt(threshold))

RECURSIVE SumSpeeds(_)
SumSpeeds(tracks) ==
    IF tracks = {} THEN RZero
    ELSE LET t == CHOOSE x \in tracks : TRUE
         IN RAdd(get_average_speed_pixels(t, 5), SumSpeeds(tracks \ {t}))

RECURSIVE SumAreas(_)
SumAreas(tracks) ==
    IF tracks = {} THEN 0
    ELSE LET t == CHOOSE x \in tracks : TRUE
             bbox == get_current_bbox(t)
         IN (IF bbox # None THEN compute_bbox_area(bbox[1]) ELSE 0) + SumAreas(tracks \ {t})

\* FastPath never taken: an empty list is analysed like any other
FastPath_never(vehicle_count) == FALSE

\* "if vehicle_count == 0" of metrics.py:278
FastPath(vehicle_count) == vehicle_count = 0

\* the window is reset only once the counter has passed fps * duration
WindowElapsed_late(d, rate, counted) ==
    RLt(RMul(rate, RInt(d.flow_window_duration)), RInt(counted))

\* "if self.flow_window_frames >= fps * self.flow_window_duration" of
\* metrics.py:324, on the counter already raised by one
WindowElapsed(d, rate, counted) ==
    RLe(RMul(rate, RInt(d.flow_window_duration)), RInt(counted))

\* analyze(tracks, frame_idx, fps) with timestamp = None:
\* <<the CongestionMetrics returned, the detector afterwards>>
analyze(d, tracks, f, rate) ==
    LET vehicle_count == Cardinality(tracks)
        timestamp == RDiv(RInt(f), rate)
    IN IF FastPath(vehicle_count)
       THEN <<[vehicle_count |-> 0, occupancy_ratio |-> RZero, average_speed |-> RZero,
               stopped_count |-> 0, flow_rate |-> RZero, queue_length |-> RZero,
               density_score |-> RZero, speed_score |-> RZero, flow_score |-> RZero,
               congestion_score |-> RZero, congestion_level |-> "FREE_FLOW",
               frame_idx |-> f, timestamp |-> timestamp, roi_area |-> d.roi_area], d>>
       ELSE
       LET stopped_count == Value(Cardinality({t \in tracks : is_stopped(t, d.stopped_threshold)}))
           total_bbox_area == Value(SumAreas(tracks))
           average_speed == Value(IF tracks # {} THEN RDiv(SumSpeeds(tracks), RInt(vehicle_count)) ELSE RZero)
           occupancy_ratio == Rat(total_bbox_area, d.roi_area)
           reset == WindowElapsed(d, rate, d.flow_window_frames + 1)
           frames == IF reset THEN 0 ELSE d.flow_window_frames + 1
           d1 == [d EXCEPT !.flow_window_frames = frames,
                           !.vehicle_entry_count = IF reset THEN 0 ELSE @]
           flow_rate == Value(IF frames > 0
                        THEN RDiv(RInt(vehicle_count),
                                  RMax(RDiv(RInt(frames), RMul(rate, RInt(60))), Rat(1, 60)))
                        ELSE RZero)
           queue_length == IF vehicle_count > 0 THEN Rat(stopped_count, vehicle_count) ELSE RZero
           density_score == Value(compute_density_score(d1, vehicle_count, total_bbox_area))
           speed_score == Value(compute_speed_score(d1, average_speed))
           flow_score == Value(compute_flow_score(d1, flow_rate, DefaultExpectedFlow))
           queue_score == Value(compute_queue_score(d1, stopped_count, vehicle_count))
           congestion_score == Value(compute_congestion_score(d1, density_score, speed_score, flow_score, queue_score))
       IN <<[vehicle_count |-> vehicle_count, occupancy_ratio |-> occupancy_ratio,
             average_speed |-> average_speed, stopped_count |-> stopped_count,
             flow_rate |-> flow_rate, queue_length |-> queue_length,
             density_score |-> density_score, speed_score |-> speed_score,
             flow_score |-> flow_score, congestion_score |-> congestion_score,
             congestion_level |-> classify_congestion(d1, congestion_score),
             frame_idx |-> f, timestamp |-> timestamp, roi_area |-> d1.roi_area], d1>>

customize_thresholds(d, thresholds) == [d EXCEPT !.thresholds = thresholds]

set_roi_area(d, width, height) == [d EXCEPT !.roi_area = width * height]

----------------------------------------------------------------------------
(* The caller's account of the stream: update() calls since each id was last
   detected, restarted by a detection and dropped when the caller removes the
   track itself. *)

AbsentAfterUpdate(detections) ==
    [id \in Ids |-> IF id \in DOMAIN detections THEN 0
                    ELSE IF absent_for[id] >= 0 THEN absent_for[id] + 1
                    ELSE -1]

----------------------------------------------------------------------------
(* Actions: one per operation of the TrackManager *)

Init ==
    /\ \E cfg \in ManagerConfigs :
          /\ tm = TrackManager_init(cfg[1], cfg[2])
          /\ live_frames = cfg[3]
    /\ frame_idx = 0
    /\ absent_for = [id \in Ids |-> -1]
    /\ lastUpdate = [detections |-> <<>>, frame_idx |-> -1]
    /\ detector = None /\ ctor_args = None /\ metrics = None /\ raised = None
    /\ fps = DefaultFps
    /\ probe_in = None /\ probe_out = None
    /\ NoSpeedObjects
    /\ NoOrchestrator

\* update(detections, frame_idx): the stream carries detections in its first
\* live_frames frames and then stays empty until every track has aged out
\* process_frame of the orchestrator analyses every frame it has tracked
\* before it tracks the next one (no detector: nothing to wait for)
AnalysedLastFrame ==
    \/ detector = None
    \/ lastUpdate.frame_idx < 0
    \/ /\ metrics # None
       /\ metrics[1].frame_idx = lastUpdate.frame_idx

Update ==
    \E detections \in DetectionLists :
        /\ AnalysedLastFrame
        /\ \/ frame_idx < live_frames
           \/ /\ detections = <<>>
              /\ DOMAIN tm.tracks # {}
              /\ frame_idx <= live_frames + tm.max_age
        /\ tm' = TrackManager_update(tm, detections, frame_idx)
        /\ frame_idx' = frame_idx + 1
        /\ absent_for' = AbsentAfterUpdate(detections)
        /\ UNCHANGED <<live_frames, detectorVars, probeVars, smootherVars, estimatorVars, orchestratorVars>>
        /\ lastUpdate' = [detections |-> detections, frame_idx |-> frame_idx]

\* whether the owner of the manager still calls remove_track() and clear():
\* while the stream carries detections and the archive is short
OwnerRemoves == frame_idx <= live_frames /\ tm.total_tracks_completed < MaxCompleted

RemoveTrack ==
    \E track_id \in Ids :
        /\ OwnerRemoves
        /\ tm' = remove_track(tm, track_id)
        /\ absent_for' = [absent_for EXCEPT ![track_id] = -1]
        /\ UNCHANGED <<frame_idx, live_frames, lastUpdate, detectorVars, probeVars, smootherVars, estimatorVars, orchestratorVars>>

Clear ==
    /\ OwnerRemoves
    /\ tm' = clear(tm)
    /\ absent_for' = [id \in Ids |-> -1]
    /\ UNCHANGED <<frame_idx, live_frames, lastUpdate, detectorVars, probeVars, smootherVars, estimatorVars, orchestratorVars>>

Next == Update \/ RemoveTrack \/ Clear

Spec == Init /\ [][Next]_vars

----------------------------------------------------------------------------
(* Actions of the CongestionDetector, fed by a TrackManager(max_age = 1,
   max_history = 2) as the orchestrator feeds it: the detector is built
   before the first frame and its ROI set before the first analysis, and
   after each update() of the manager analyze() is called once with the
   manager's active tracks.  The threshold table is replaced at any time. *)

InitDetector ==
    /\ tm = TrackManager_init(1, 2)
    /\ live_frames = MaxFrameDetector
    /\ frame_idx = 0
    /\ absent_for = [id \in Ids |-> -1]
    /\ lastUpdate = [detections |-> <<>>, frame_idx |-> -1]
    /\ detector = None /\ ctor_args = None /\ metrics = None /\ raised = None
    /\ fps \in FpsChoices
    /\ probe_in = None /\ probe_out = None
    /\ NoSpeedObjects
    /\ NoOrchestrator

\* CongestionDetector(roi_area, max_vehicles, max_speed, stopped_threshold,
\* density_weight, speed_weight, flow_weight, queue_weight)
Construct ==
    \E capacity \in CapacityChoices, weights \in WeightChoices :
        /\ detector = None
        /\ frame_idx = 0
        /\ ctor_args' = Some([capacity |-> capacity, weights |-> weights])
        /\ detector' = CongestionDetector_init(capacity, weights)[1]
        /\ raised' = CongestionDetector_init(capacity, weights)[2]
        /\ UNCHANGED <<trackerVars, fps, metrics, probeVars, smootherVars, estimatorVars, orchestratorVars>>

\* analyze(track_manager.get_active_tracks(), frame_idx, fps), once per frame
Analyze ==
    /\ detector # None
    /\ lastUpdate.frame_idx >= 0
    /\ IF metrics = None THEN TRUE ELSE metrics[1].frame_idx # lastUpdate.frame_idx
    /\ \E r \in {analyze(detector[1], get_active_tracks(tm), lastUpdate.frame_idx, fps)} :
          /\ metrics' = Some(r[1])
          /\ detector' = Some(r[2])
    /\ raised' = None
    /\ UNCHANGED <<trackerVars, ctor_args, fps, probeVars, smootherVars, estimatorVars, orchestratorVars>>

CustomizeThresholds ==
    \E thresholds \in ThresholdTables :
        /\ detector # None
        /\ detector' = Some(customize_thresholds(detector[1], thresholds))
        /\ raised' = None
        /\ UNCHANGED <<trackerVars, ctor_args, fps, metrics, probeVars, smootherVars, estimatorVars, orchestratorVars>>

SetRoiArea ==
    \E size \in FrameSizes :
        /\ detector # None
        /\ metrics = None
        /\ detector' = Some(set_roi_area(detector[1], size[1], size[2]))
        /\ raised' = None
        /\ UNCHANGED <<trackerVars, ctor_args, fps, metrics, probeVars, smootherVars, estimatorVars, orchestratorVars>>

NextDetector == Construct \/ Update \/ Analyze \/ CustomizeThresholds \/ SetRoiArea

SpecDetector == InitDetector /\ [][NextDetector]_vars

----------------------------------------------------------------------------
(* Direct calls of the four compute_*_score methods of a constructed
   detector, on non-negative magnitudes *)

\* average speeds and flow rates passed in: 0, fractions, values past the caps
ProbeMagnitudes == {RZero, Rat(5, 2), RInt(5), RInt(30), RInt(200)}

ProbeAreas == {0, 400, 800, 400000}

\* vehicle counts passed in: small ones, and 60 against the default capacity of 50
ProbeCounts == 0..MaxProbeCount \cup {60}

ProbeInputs ==
    [vehicle_count : ProbeCounts, stopped_count : 0..MaxProbeCount,
     total_bbox_area : ProbeAreas, average_speed : ProbeMagnitudes,
     flow_rate : ProbeMagnitudes]

InitScores ==
    /\ tm = TrackManager_init(DefaultMaxAge, DefaultMaxHistory)
    /\ live_frames = 0
    /\ frame_idx = 0
    /\ absent_for = [id \in Ids |-> -1]
    /\ lastUpdate = [detections |-> <<>>, frame_idx |-> -1]
    /\ \E capacity \in CapacityChoices :
          /\ ctor_args = Some([capacity |-> capacity, weights |-> <<35000, 35000, 20000, 10000>>])
          /\ detector = CongestionDetector_init(capacity, <<35000, 35000, 20000, 10000>>)[1]
    /\ metrics = None /\ raised = None
    /\ fps = DefaultFps
    /\ probe_in \in {Some(p) : p \in ProbeInputs}
    /\ probe_out = None
    /\ NoSpeedObjects
    /\ NoOrchestrator

ComputeDensityScore ==
    /\ probe_out = None
    /\ probe_out' = Some([method |-> "compute_density_score",
                          value |-> compute_density_score(detector[1], probe_in[1].vehicle_count, probe_in[1].total_bbox_area)])
    /\ UNCHANGED <<trackerVars, detectorVars, probe_in, smootherVars, estimatorVars, orchestratorVars>>

ComputeSpeedScore ==
    /\ probe_out = None
    /\ probe_out' = Some([method |-> "compute_speed_score",
                          value |-> compute_speed_score(detector[1], probe_in[1].average_speed)])
    /\ UNCHANGED <<trackerVars, detectorVars, probe_in, smootherVars, estimatorVars, orchestratorVars>>

ComputeFlowScore ==
    /\ probe_out = None
    /\ probe_out' = Some([method |-> "compute_flow_score",
                          value |-> compute_flow_score(detector[1], probe_in[1].flow_rate, DefaultExpectedFlow)])
    /\ UNCHANGED <<trackerVars, detectorVars, probe_in, smootherVars, estimatorVars, orchestratorVars>>

ComputeQueueScore ==
    /\ probe_out = None
    /\ probe_out' = Some([method |-> "compute_queue_score",
                          value |-> compute_queue_score(detector[1], probe_in[1].stopped_count, probe_in[1].vehicle_count)])
    /\ UNCHANGED <<trackerVars, detectorVars, probe_in, smootherVars, estimatorVars, orchestratorVars>>

NextScores == ComputeDensityScore \/ ComputeSpeedScore \/ ComputeFlowScore \/ ComputeQueueScore

SpecScores == InitScores /\ [][NextScores]_vars

----------------------------------------------------------------------------
(* Direct calls of classify_congestion on a default-built detector whose
   threshold table may be replaced between the calls *)

\* the scores passed in: the multiples of 0.05 from 0 up, the score just
\* below 0.2, and one above every band
ProbeScores ==
    {Rat(k, 20) : k \in 0..MaxProbeScore} \cup {Rat(19999, Unit), Rat(3, 2)}

InitClassify ==
    /\ tm = TrackManager_init(DefaultMaxAge, DefaultMaxHistory)
    /\ live_frames = 0
    /\ frame_idx = 0
    /\ absent_for = [id \in Ids |-> -1]
    /\ lastUpdate = [detections |-> <<>>, frame_idx |-> -1]
    /\ \E capacity \in CapacityChoices :
          /\ ctor_args = Some([capacity |-> capacity, weights |-> <<35000, 35000, 20000, 10000>>])
          /\ detector = CongestionDetector_init(capacity, <<35000, 35000, 20000, 10000>>)[1]
    /\ metrics = None /\ raised = None
    /\ fps = DefaultFps
    /\ probe_in \in {Some([congestion_score |-> s]) : s \in ProbeScores}
    /\ probe_out = None
    /\ NoSpeedObjects
    /\ NoOrchestrator

ClassifyCongestion ==
    /\ detector # None
    /\ probe_out' = Some([method |-> "classify_congestion",
                          value |-> classify_congestion(detector[1], probe_in[1].congestion_score)])
    /\ UNCHANGED <<trackerVars, detectorVars, probe_in, smootherVars, estimatorVars, orchestratorVars>>

NextClassify == ClassifyCongestion \/ CustomizeThresholds

SpecClassify == InitClassify /\ [][NextClassify]_vars

----------------------------------------------------------------------------
(* SpeedSmoother (speed_estimation.py:262-307).  Speeds are exact fractions;
   the z-score test |speed - mean| / std > threshold is taken on the squares,
   (speed - mean)^2 > threshold^2 * variance, for a threshold >= 0. *)

\* (window_size, outlier_threshold): the defaults, used by the orchestrator
\* (congestion_detection.py:205-208), and a shorter window
SmootherConfigs == {<<5, 3>>, <<3, 3>>}

\* raw speeds handed to add_speed
RawSpeeds == {RInt(10), RInt(11), RInt(1000)}

SpeedSmoother_init(window_size, outlier_threshold) ==
    [window_size |-> window_size, outlier_threshold |-> RInt(outlier_threshold),
     speed_history |-> <<>>]

RECURSIVE RSeqSum(_)
RSeqSum(seq) == IF seq = <<>> THEN RZero ELSE RAdd(Head(seq), RSeqSum(Tail(seq)))

\* np.mean of a non-empty sequence
Mean(seq) == RDiv(RSeqSum(seq), RInt(Len(seq)))

RSquare(x) == RMul(x, x)

\* np.std(seq) ** 2: the mean of the squared deviations from the mean
Variance(seq) ==
    LET mean == Value(Mean(seq))
    IN Mean([i \in 1..Len(seq) |-> RSquare(RSub(seq[i], mean))])

\* the test without the minimum of three samples
IsOutlier_any_length(speed, speed_history, outlier_threshold) ==
    /\ Len(speed_history) > 0
    /\ RLt(RZero, Variance(speed_history))
    /\ RLt(RMul(RSquare(outlier_threshold), Variance(speed_history)),
           RSquare(RSub(speed, Mean(speed_history))))

\* speed_estimation.py:289-295: more than two samples, std > 0 and
\* z_score > self.outlier_threshold
IsOutlier(speed, speed_history, outlier_threshold) ==
    /\ Len(speed_history) > 2
    /\ RLt(RZero, Variance(speed_history))
    /\ RLt(RMul(RSquare(outlier_threshold), Variance(speed_history)),
           RSquare(RSub(speed, Mean(speed_history))))

\* add_speed(speed): <<the smoother afterwards, the value returned>>
add_speed(sm, speed) ==
    LET kept == Value(IF IsOutlier(speed, sm.speed_history, sm.outlier_threshold)
                      THEN Mean(sm.speed_history) ELSE speed)
        speed_history == Value(DequeAppend(sm.speed_history, kept, sm.window_size))
    IN <<[sm EXCEPT !.speed_history = speed_history], Mean(speed_history)>>

\* reset that leaves the newest sample in the window
reset_keep_last(sm) ==
    [sm EXCEPT !.speed_history = IF @ = <<>> THEN <<>> ELSE <<@[Len(@)]>>]

\* self.speed_history.clear()
reset(sm) == [sm EXCEPT !.speed_history = <<>>]

\* no tracker, detector or score method is in use
OnlySpeedObjects ==
    /\ tm = TrackManager_init(DefaultMaxAge, DefaultMaxHistory)
    /\ live_frames = 0
    /\ frame_idx = 0
    /\ absent_for = [id \in Ids |-> -1]
    /\ lastUpdate = [detections |-> <<>>, frame_idx |-> -1]
    /\ detector = None /\ ctor_args = None /\ metrics = None /\ raised = None
    /\ fps = DefaultFps
    /\ probe_in = None /\ probe_out = None

InitSmoother ==
    /\ OnlySpeedObjects
    /\ NoSpeedObjects
    /\ NoOrchestrator

\* SpeedSmoother(window_size, outlier_threshold)
ConstructSmoother ==
    \E cfg \in SmootherConfigs :
        /\ smoother = None
        /\ smoother' = Some(SpeedSmoother_init(cfg[1], cfg[2]))
        /\ UNCHANGED <<smooth_call, n_calls, fresh, fresh_call>>
        /\ UNCHANGED <<trackerVars, detectorVars, probeVars, estimatorVars, orchestratorVars>>

\* add_speed(speed), and the same call on the newly built smoother if any
AddSpeed ==
    \E speed \in RawSpeeds :
        /\ smoother # None
        /\ n_calls < smoother[1].window_size + MaxExtraCalls
        /\ LET r == Value(add_speed(smoother[1], speed))
           IN /\ smoother' = Some(r[1])
              /\ smooth_call' = Some([speed |-> speed, returned |-> r[2]])
        /\ n_calls' = n_calls + 1
        /\ IF fresh = None
           THEN UNCHANGED <<fresh, fresh_call>>
           ELSE LET r == Value(add_speed(fresh[1], speed))
                IN /\ fresh' = Some(r[1])
                   /\ fresh_call' = Some([speed |-> speed, returned |-> r[2]])
        /\ UNCHANGED <<trackerVars, detectorVars, probeVars, estimatorVars, orchestratorVars>>

\* reset(); from here on a smoother newly built with the same arguments is
\* given the same calls
Reset ==
    /\ smoother # None
    /\ fresh = None
    /\ smoother' = Some(reset(smoother[1]))
    /\ smooth_call' = None
    /\ n_calls' = 0
    /\ fresh' = Some([smoother[1] EXCEPT !.speed_history = <<>>])
    /\ fresh_call' = None
    /\ UNCHANGED <<trackerVars, detectorVars, probeVars, estimatorVars, orchestratorVars>>

NextSmoother == ConstructSmoother \/ AddSpeed \/ Reset

SpecSmoother == InitSmoother /\ [][NextSmoother]_vars

----------------------------------------------------------------------------
(* Speed estimators (speed_estimation.py:12-215) *)

\* fps arguments: the default, a slow stream, zero and a negative rate
FpsArgs == {RInt(30), RInt(25), RZero, RInt(-30)}

\* pixels_per_meter arguments: the default and a coarser calibration
PixelsPerMeterArgs == {RInt(20), RInt(10)}

\* 3.6: metres per second to km/h
KmhPerMps == Rat(18, 5)

\* SpeedEstimator.__init__: the fields set, or the exception of 1.0 / fps
SpeedEstimator_init(rate) ==
    IF rate = RZero
    THEN <<None, Some("ZeroDivisionError")>>
    ELSE <<Some([fps |-> rate, frame_time |-> RDiv(ROne, rate)]), None>>

\* PixelSpeedEstimator(fps, pixels_per_meter): <<the estimator or None, the exception or None>>
PixelSpeedEstimator_init(rate, pixels_per_meter) ==
    LET base == SpeedEstimator_init(rate)
    IN IF base[1] = None THEN base
       ELSE <<Some([kind |-> "pixel", fps |-> base[1][1].fps,
                    frame_time |-> base[1][1].frame_time,
                    pixels_per_meter |-> pixels_per_meter]), None>>

\* the conversion without the frame rate
pixels_to_speed_per_frame(est, pixels_per_frame) ==
    RMul(RDiv(pixels_per_frame, est.pixels_per_meter), KmhPerMps)

\* PixelSpeedEstimator.pixels_to_speed
pixels_to_speed(est, pixels_per_frame) ==
    RMul(RMul(RDiv(pixels_per_frame, est.pixels_per_meter), est.fps), KmhPerMps)

\* point correspondences: the four corners of an image rectangle and of the
\* world rectangle they map to; the second has its image points on one line
GoodPoints ==
    [image_points |-> <<<<0, 0>>, <<200, 0>>, <<0, 200>>, <<200, 200>>>>,
     world_points |-> <<<<0, 0>>, <<10, 0>>, <<0, 10>>, <<10, 10>>>>]

CollinearPoints ==
    [image_points |-> <<<<0, 0>>, <<100, 0>>, <<200, 0>>, <<300, 0>>>>,
     world_points |-> <<<<0, 0>>, <<10, 0>>, <<0, 10>>, <<10, 10>>>>]

PointChoices == {GoodPoints, CollinearPoints}

\* cv2.findHomography for corner correspondences of axis-parallel
\* rectangles: the scaling and shift that maps the first corner to the first
\* and the fourth to the fourth; no matrix if the image corners span no area
findHomography(image_points, world_points) ==
    LET i1 == image_points[1]
        i4 == image_points[4]
        w1 == world_points[1]
        w4 == world_points[4]
    IN IF i4[1] = i1[1] \/ i4[2] = i1[2] THEN None
       ELSE LET sx == Rat(w4[1] - w1[1], i4[1] - i1[1])
                sy == Rat(w4[2] - w1[2], i4[2] - i1[2])
            IN Some(<<<<sx, RZero, RSub(RInt(w1[1]), RMul(sx, RInt(i1[1])))>>,
                      <<RZero, sy, RSub(RInt(w1[2]), RMul(sy, RInt(i1[2])))>>,
                      <<RZero, RZero, ROne>>>>)

compute_homography(est, image_points, world_points) ==
    [est EXCEPT !.homography_matrix = findHomography(image_points, world_points)]

\* HomographySpeedEstimator(fps, image_points, world_points), points = None
\* when no correspondences are passed
HomographySpeedEstimator_init(rate, points) ==
    LET base == SpeedEstimator_init(rate)
    IN IF base[1] = None THEN base
       ELSE LET est == [kind |-> "homography", fps |-> base[1][1].fps,
                        frame_time |-> base[1][1].frame_time,
                        homography_matrix |-> None]
            IN IF points # None
               THEN <<Some(compute_homography(est, points[1].image_points, points[1].world_points)), None>>
               ELSE <<Some(est), None>>

\* cv2.perspectiveTransform of one point
perspectiveTransform(point, H) ==
    LET x == RInt(point[1])
        y == RInt(point[2])
        w == Value(RAdd(RAdd(RMul(H[3][1], x), RMul(H[3][2], y)), H[3][3]))
    IN <<RDiv(RAdd(RAdd(RMul(H[1][1], x), RMul(H[1][2], y)), H[1][3]), w),
         RDiv(RAdd(RAdd(RMul(H[2][1], x), RMul(H[2][2], y)), H[2][3]), w)>>

\* image_to_world that maps through the identity when no matrix is set
image_to_world_unguarded(est, image_point) ==
    IF est.homography_matrix = None
    THEN <<Some(<<RInt(image_point[1]), RInt(image_point[2])>>), None>>
    ELSE <<Some(perspectiveTransform(image_point, est.homography_matrix[1])), None>>

\* image_to_world(image_point): <<the world point or None, the exception or None>>
image_to_world(est, image_point) ==
    IF est.homography_matrix = None
    THEN <<None, Some("ValueError")>>
    ELSE <<Some(perspectiveTransform(image_point, est.homography_matrix[1])), None>>

\* np.sqrt of a fraction in lowest terms, exact: the inputs are chosen to be squares
RSqrt(x) == Rat(Sqrt(x[1]), Sqrt(x[2]))

\* compute_world_distance(point1, point2): <<the distance or None, the exception or None>>
compute_world_distance(est, point1, point2) ==
    LET world1 == image_to_world(est, point1)
        world2 == image_to_world(est, point2)
    IN IF world1[2] # None THEN <<None, world1[2]>>
       ELSE IF world2[2] # None THEN <<None, world2[2]>>
       ELSE <<Some(RSqrt(RAdd(RSquare(RSub(world2[1][1][1], world1[1][1][1])),
                              RSquare(RSub(world2[1][1][2], world1[1][1][2]))))), None>>

\* HomographySpeedEstimator.pixels_to_speed(centroid1, centroid2)
homography_pixels_to_speed(est, centroid1, centroid2) ==
    LET distance_meters == compute_world_distance(est, centroid1, centroid2)
    IN IF distance_meters[2] # None THEN <<None, distance_meters[2]>>
       ELSE <<Some(RMul(RMul(distance_meters[1][1], est.fps), KmhPerMps)), None>>

\* bboxes of one vehicle in two consecutive frames: its centre moves from
\* (100,100) to (110,100), not at all, to (106,108), or to (103,104)
BoxC == <<100, 90, 120, 110>>

BoxD == <<93, 94, 113, 114>>

ProbeMoves == {<<BoxA, BoxC>>, <<BoxA, BoxA>>, <<BoxA, BoxB>>, <<BoxA, BoxD>>}

\* a track that has been updated with the two bboxes in consecutive frames
TrackOfMove(move) ==
    VehicleTrack_update(
        VehicleTrack_update(VehicleTrack_init(1, DefaultMaxHistory), move[1], 0, None, None),
        move[2], 1, None, None)

InitSpeed ==
    /\ OnlySpeedObjects
    /\ NoSpeedObjects
    /\ NoOrchestrator

\* PixelSpeedEstimator(fps, pixels_per_meter)
ConstructPixel ==
    \E rate \in FpsArgs, pixels_per_meter \in PixelsPerMeterArgs :
        /\ estimator = None
        /\ LET r == PixelSpeedEstimator_init(rate, pixels_per_meter)
           IN /\ estimator' = r[1]
              /\ est_call' = Some([method |-> "PixelSpeedEstimator", args |-> <<rate, pixels_per_meter>>,
                                   px |-> None, raised |-> r[2], value |-> None])
        /\ UNCHANGED <<trackerVars, detectorVars, probeVars, smootherVars, orchestratorVars>>

\* HomographySpeedEstimator(fps) and HomographySpeedEstimator(fps, image_points, world_points)
ConstructHomography ==
    \E rate \in FpsArgs, points \in {None} \cup {Some(p) : p \in PointChoices} :
        /\ estimator = None
        /\ LET r == HomographySpeedEstimator_init(rate, points)
           IN /\ estimator' = r[1]
              /\ est_call' = Some([method |-> "HomographySpeedEstimator", args |-> <<rate, points>>,
                                   px |-> None, raised |-> r[2], value |-> None])
        /\ UNCHANGED <<trackerVars, detectorVars, probeVars, smootherVars, orchestratorVars>>

ComputeHomography ==
    \E points \in PointChoices :
        /\ estimator # None
        /\ estimator[1].kind = "homography"
        /\ estimator' = Some(compute_homography(estimator[1], points.image_points, points.world_points))
        /\ est_call' = Some([method |-> "compute_homography", args |-> <<points>>,
                             px |-> None, raised |-> None, value |-> None])
        /\ UNCHANGED <<trackerVars, detectorVars, probeVars, smootherVars, orchestratorVars>>

\* compute_speeds of the orchestrator for one track and a pixel estimator:
\* speed_px = track.get_average_speed_pixels(window=5), then pixels_to_speed
PixelsToSpeed ==
    \E move \in ProbeMoves :
        /\ estimator # None
        /\ estimator[1].kind = "pixel"
        /\ LET speed_px == Value(get_average_speed_pixels(TrackOfMove(move), 5))
           IN est_call' = Some([method |-> "pixels_to_speed", args |-> move,
                                px |-> Some(speed_px), raised |-> None,
                                value |-> Some(pixels_to_speed(estimator[1], speed_px))])
        /\ UNCHANGED <<trackerVars, detectorVars, probeVars, smootherVars, estimator, orchestratorVars>>

ImageToWorld ==
    \E move \in ProbeMoves :
        /\ estimator # None
        /\ estimator[1].kind = "homography"
        /\ LET r == Value(image_to_world(estimator[1], compute_centroid(move[2])))
           IN est_call' = Some([method |-> "image_to_world", args |-> move,
                                px |-> None, raised |-> r[2], value |-> r[1]])
        /\ UNCHANGED <<trackerVars, detectorVars, probeVars, smootherVars, estimator, orchestratorVars>>

ComputeWorldDistance ==
    \E move \in ProbeMoves :
        /\ estimator # None
        /\ estimator[1].kind = "homography"
        /\ LET r == Value(compute_world_distance(estimator[1], compute_centroid(move[1]), compute_centroid(move[2])))
           IN est_call' = Some([method |-> "compute_world_distance", args |-> move,
                                px |-> None, raised |-> r[2], value |-> r[1]])
        /\ UNCHANGED <<trackerVars, detectorVars, probeVars, smootherVars, estimator, orchestratorVars>>

\* compute_speeds of the orchestrator for one track and a homography
\* estimator: pixels_to_speed(track.centroids[-2], track.centroids[-1])
HomographyPixelsToSpeed ==
    \E move \in ProbeMoves :
        /\ estimator # None
        /\ estimator[1].kind = "homography"
        /\ LET centroids == TrackOfMove(move).centroids
               r == Value(homography_pixels_to_speed(estimator[1], centroids[1], centroids[2]))
           IN est_call' = Some([method |-> "homography_pixels_to_speed", args |-> move,
                                px |-> None, raised |-> r[2], value |-> r[1]])
        /\ UNCHANGED <<trackerVars, detectorVars, probeVars, smootherVars, estimator, orchestratorVars>>

NextSpeed ==
    \/ ConstructPixel
    \/ ConstructHomography
    \/ ComputeHomography
    \/ PixelsToSpeed
    \/ ImageToWorld
    \/ ComputeWorldDistance
    \/ HomographyPixelsToSpeed

SpecSpeed == InitSpeed /\ [][NextSpeed]_vars

----------------------------------------------------------------------------
(* A stream whose detections carry degenerate and malformed bboxes, tracked
   by a TrackManager(max_age = 1, max_history = 2) and analysed every frame
   by a detector built with the default weights *)

\* a bbox of zero area, and one with x1 > x2
BoxZero == <<100, 100, 100, 100>>

BoxFlipped == <<110, 90, 90, 110>>

AnomalousChoices ==
    {<<BoxA, Some(2), Some("car")>>, <<BoxZero, Some(2), Some("car")>>,
     <<BoxFlipped, Some(2), Some("car")>>}

AnomalousLists == UNION {[S -> AnomalousChoices] : S \in SUBSET Ids}

InitAnomalies ==
    /\ tm = TrackManager_init(1, 2)
    /\ live_frames = MaxFrameDetector
    /\ frame_idx = 0
    /\ absent_for = [id \in Ids |-> -1]
    /\ lastUpdate = [detections |-> <<>>, frame_idx |-> -1]
    /\ \E capacity \in CapacityChoices :
          /\ ctor_args = Some([capacity |-> capacity, weights |-> <<35000, 35000, 20000, 10000>>])
          /\ detector = CongestionDetector_init(capacity, <<35000, 35000, 20000, 10000>>)[1]
    /\ metrics = None /\ raised = None
    /\ fps \in FpsChoices
    /\ probe_in = None /\ probe_out = None
    /\ NoSpeedObjects
    /\ NoOrchestrator

\* update(detections, frame_idx) on such a frame
UpdateAnomalous ==
    \E detections \in AnomalousLists :
        /\ AnalysedLastFrame
        /\ \/ frame_idx < live_frames
           \/ /\ detections = <<>>
              /\ DOMAIN tm.tracks # {}
              /\ frame_idx <= live_frames + tm.max_age
        /\ tm' = TrackManager_update(tm, detections, frame_idx)
        /\ frame_idx' = frame_idx + 1
        /\ absent_for' = AbsentAfterUpdate(detections)
        /\ lastUpdate' = [detections |-> detections, frame_idx |-> frame_idx]
        /\ UNCHANGED <<live_frames, detectorVars, probeVars, smootherVars, estimatorVars, orchestratorVars>>

NextAnomalies == UpdateAnomalous \/ Analyze

SpecAnomalies == InitAnomalies /\ [][NextAnomalies]_vars

----------------------------------------------------------------------------
(* TrafficCongestionDetector, the orchestrator (congestion_detection.py).
   Its track_manager, congestion_detector, speed_estimator and fps are the
   variables tm, detector, estimator and fps; its other fields are the
   record orchestrator.  process_video() calls setup_from_video() once and
   then, for each frame, detect_and_track(), compute_speeds() and
   analyze_congestion(); an exception leaves the loop. *)

\* frames of the video
MaxFrameOrchestrator == 3

\* <<speed_estimator_type, homography_points>>
EstimatorArgs ==
    {<<"pixel", None>>, <<"homography", Some(GoodPoints)>>, <<"homography", None>>}

\* roi_area arguments: the default None and an explicit area
RoiAreaArgs == {None, Some(1000)}

TrackMaxAgeArgs == {0, 1}

\* what the tracker reports in one frame: vehicle 1 in either box, vehicle 2 in the first
OrchestratorDetections ==
    {d \in DetectionLists :
        /\ \A id \in DOMAIN d : d[id][2] # None
        /\ 2 \in DOMAIN d => d[2][1] = BoxA}

\* TrafficCongestionDetector(model_path, track_max_age=..., speed_estimator_type=...,
\* pixels_per_meter=20.0, homography_points=..., roi_area=...): <<the fields, the TrackManager>>
TrafficCongestionDetector_init(track_max_age, speed_estimator_type, homography_points, roi_area) ==
    <<[speed_estimator_type |-> speed_estimator_type,
       pixels_per_meter |-> RInt(20),
       homography_points |-> homography_points,
       speed_smoothers |-> <<>>,
       roi_area |-> roi_area,
       metrics_history |-> <<>>,
       frame_width |-> 640, frame_height |-> 480],
      TrackManager_init(track_max_age, DefaultMaxHistory)>>

\* the estimator built by setup_from_video (congestion_detection.py:121-143)
SetupEstimator(o, rate) ==
    IF o.speed_estimator_type = "pixel"
    THEN PixelSpeedEstimator_init(rate, o.pixels_per_meter)
    ELSE IF o.speed_estimator_type = "homography"
    THEN IF o.homography_points # None
         THEN HomographySpeedEstimator_init(rate, o.homography_points)
         ELSE PixelSpeedEstimator_init(rate, o.pixels_per_meter)
    ELSE <<None, None>>

\* "roi_area = self.roi_area or (self.frame_width * self.frame_height)",
\* CongestionDetector(roi_area=roi_area) and set_roi_area(frame_width, frame_height)
\* (congestion_detection.py:145-148)
SetupDetector(o, width, height) ==
    LET roi_area == IF o.roi_area = None \/ o.roi_area = Some(0) THEN width * height ELSE o.roi_area[1]
        congestion_detector == CongestionDetector_init(<<roi_area, 50, 100, 2>>, <<35000, 35000, 20000, 10000>>)[1][1]
    IN set_roi_area(congestion_detector, width, height)

\* the ids of the manager's tracks in the order of the dict self.tracks: by
\* the frame of creation, and by id within a frame
RECURSIVE TracksInOrder(_, _)
TracksInOrder(m, ids) ==
    IF ids = {} THEN <<>>
    ELSE LET first == CHOOSE i \in ids : \A j \in ids :
                          \/ m.tracks[i].first_frame[1] < m.tracks[j].first_frame[1]
                          \/ /\ m.tracks[i].first_frame[1] = m.tracks[j].first_frame[1]
                             /\ i <= j
         IN <<first>> \o TracksInOrder(m, ids \ {first})

\* speed_real of one track (congestion_detection.py:213-227):
\* <<the speed or None, the exception or None>>
RealSpeed(o, est, track) ==
    IF o.speed_estimator_type = "pixel"
    THEN <<Some(pixels_to_speed(est[1], get_average_speed_pixels(track, 5))), None>>
    ELSE IF o.speed_estimator_type = "homography"
    THEN IF Len(track.centroids) >= 2
         THEN IF est[1].kind = "homography"
              THEN homography_pixels_to_speed(est[1], track.centroids[Len(track.centroids) - 1],
                                              track.centroids[Len(track.centroids)])
              ELSE <<None, Some("TypeError")>>
         ELSE <<Some(RZero), None>>
    ELSE <<Some(get_average_speed_pixels(track, 5)), None>>

\* the smoother of an id is built anew on every call
SmootherOf_fresh(o, id) == SpeedSmoother_init(5, 3)

\* "if track.track_id not in self.speed_smoothers: ... SpeedSmoother(window_size=5,
\* outlier_threshold=3.0)" and "smoother = self.speed_smoothers[track.track_id]"
SmootherOf(o, id) ==
    IF id \in DOMAIN o.speed_smoothers THEN o.speed_smoothers[id] ELSE SpeedSmoother_init(5, 3)

\* one pass of the loop of compute_speeds, for the track of one id:
\* <<the orchestrator's fields, the manager, the exception or None>>
ComputeSpeedsOf(o, m, est, id) ==
    TheOne({IF speed_real[2] # None
           THEN <<[o EXCEPT !.speed_smoothers = SetKey(@, id, smoother_0)], m, speed_real[2]>>
           ELSE TheOne({<<[o EXCEPT !.speed_smoothers = SetKey(@, id, r[1])],
                         [m EXCEPT !.tracks[id].speeds_real = DequeAppend(@, r[2], m.tracks[id].max_history)],
                         None>> : r \in {add_speed(smoother_0, speed_real[1][1])}})
           : smoother_0 \in {SmootherOf(o, id)}, speed_real \in {RealSpeed(o, est, m.tracks[id])}})

\* the loop over the ids left, from the state <<fields, manager, exception>> reached
RECURSIVE ComputeSpeedsLoop(_, _, _)
ComputeSpeedsLoop(reached, est, ids) ==
    IF ids = <<>> \/ reached[3] # None THEN reached
    ELSE TheOne({ComputeSpeedsLoop(next, est, Tail(ids)) :
                   next \in {ComputeSpeedsOf(reached[1], reached[2], est, Head(ids))}})

compute_speeds(o, m, est) ==
    ComputeSpeedsLoop(<<o, m, None>>, est, TracksInOrder(m, DOMAIN m.tracks))

InitOrchestrator ==
    /\ \E track_max_age \in TrackMaxAgeArgs, est \in EstimatorArgs, roi_area \in RoiAreaArgs :
          LET r == TrafficCongestionDetector_init(track_max_age, est[1], est[2], roi_area)
          IN /\ orchestrator = Some(r[1])
             /\ tm = r[2]
             /\ ctor_args = Some([track_max_age |-> track_max_age, speed_estimator_type |-> est[1],
                                  homography_points |-> est[2], roi_area |-> roi_area])
    /\ pc = "setup_from_video"
    /\ live_frames = MaxFrameOrchestrator
    /\ frame_idx = 0
    /\ absent_for = [id \in Ids |-> -1]
    /\ lastUpdate = [detections |-> <<>>, frame_idx |-> -1]
    /\ detector = None /\ metrics = None /\ raised = None
    /\ fps = DefaultFps
    /\ probe_in = None /\ probe_out = None
    /\ NoSpeedObjects

\* setup_from_video(video_path) on a video of 30 frames per second
SetupFromVideo ==
    \E size \in FrameSizes :
        /\ pc = "setup_from_video"
        /\ fps' = DefaultFps
        /\ orchestrator' = Some([orchestrator[1] EXCEPT !.frame_width = size[1], !.frame_height = size[2]])
        /\ estimator' = SetupEstimator(orchestrator[1], DefaultFps)[1]
        /\ detector' = Some(SetupDetector(orchestrator[1], size[1], size[2]))
        /\ pc' = "detect_and_track"
        /\ UNCHANGED <<trackerVars, ctor_args, metrics, raised, probeVars, smootherVars, est_call>>

\* detect_and_track(frame, frame_idx): the tracker's boxes go to track_manager.update
DetectAndTrack ==
    \E detections \in OrchestratorDetections :
        /\ pc = "detect_and_track"
        /\ frame_idx < live_frames
        /\ tm' = TrackManager_update(tm, detections, frame_idx)
        /\ frame_idx' = frame_idx + 1
        /\ absent_for' = AbsentAfterUpdate(detections)
        /\ lastUpdate' = [detections |-> detections, frame_idx |-> frame_idx]
        /\ pc' = "compute_speeds"
        /\ UNCHANGED <<live_frames, detectorVars, probeVars, smootherVars, estimatorVars, orchestrator>>

\* compute_speeds()
ComputeSpeeds ==
    /\ pc = "compute_speeds"
    /\ \E r \in {compute_speeds(orchestrator[1], tm, estimator)} :
          /\ orchestrator' = Some(r[1])
          /\ tm' = r[2]
          /\ raised' = r[3]
          /\ pc' = IF r[3] = None THEN "analyze_congestion" ELSE "raised"
    /\ UNCHANGED <<frame_idx, live_frames, absent_for, lastUpdate, detector, ctor_args, fps, metrics,
                   probeVars, smootherVars, estimatorVars>>

\* analyze_congestion(frame_idx)
AnalyzeCongestion ==
    /\ pc = "analyze_congestion"
    /\ \E r \in {analyze(detector[1], get_active_tracks(tm), lastUpdate.frame_idx, fps)} :
          /\ metrics' = Some(r[1])
          /\ detector' = Some(r[2])
          /\ orchestrator' = Some([orchestrator[1] EXCEPT !.metrics_history = Append(@, r[1])])
    /\ pc' = "detect_and_track"
    /\ UNCHANGED <<trackerVars, ctor_args, fps, raised, probeVars, smootherVars, estimatorVars>>

NextOrchestrator == SetupFromVideo \/ DetectAndTrack \/ ComputeSpeeds \/ AnalyzeCongestion

SpecOrchestrator == InitOrchestrator /\ [][NextOrchestrator]_vars

----------------------------------------------------------------------------
(* Tracks the claims speak of *)

ActiveIds == {t.track_id : t \in get_active_tracks(tm)}

ArchivedTracks == {tm.completed_tracks[i] : i \in DOMAIN tm.completed_tracks}

AllTracks == get_active_tracks(tm) \cup ArchivedTracks

\* the step is an update() call
IsUpdateStep == frame_idx' = frame_idx + 1

----------------------------------------------------------------------------
(* C1.  A track is active exactly while the update() calls since its id was
   last detected number at most max_age: after max_age consecutive misses it
   is still in get_active_tracks(), the (max_age + 1)-th miss evicts it, and
   a detection (absent_for = 0) keeps or makes it active.  The default
   manager (max_age = 30) is one of the managers checked. *)
C1_EvictedAfterMaxAgePlusOneMisses ==
    \A id \in Ids :
        absent_for[id] >= 0 => (id \in ActiveIds <=> absent_for[id] <= tm.max_age)

\* default manager: one id evicted at its 31st miss while the other, at its
\* 30th miss, is still active
C1_Witness ==
    /\ tm.max_age = DefaultMaxAge
    /\ \E a, b \in Ids :
          /\ absent_for[a] = DefaultMaxAge + 1 /\ a \notin ActiveIds
          /\ absent_for[b] = DefaultMaxAge /\ b \in ActiveIds

(* C2.  After N updates of one track object (N = total_frames) its centroid
   history holds min(N, max_history) entries, never more than max_history. *)
C2_CentroidHistoryBounded ==
    \A t \in AllTracks :
        /\ Len(t.centroids) <= t.max_history
        /\ Len(t.centroids) = Min(t.total_frames, t.max_history)

\* a track updated more often than its capacity (>= 2) holds
C2_Witness ==
    \E t \in get_active_tracks(tm) :
        /\ t.max_history >= 2
        /\ t.total_frames > t.max_history
        /\ Len(t.centroids) = t.max_history

(* C3.  In every state, every active or archived track has centroid and bbox
   histories of equal length, at most max_history, entry i of the one being
   the centre of entry i of the other; and an update of a track whose
   histories are full drops the oldest entry of both and appends the new
   observation. *)
C3_HistoriesAlignedFifo ==
    /\ [](\A t \in AllTracks :
            /\ Len(t.centroids) = Len(t.bboxes)
            /\ Len(t.bboxes) <= t.max_history
            /\ \A i \in DOMAIN t.bboxes : t.centroids[i] = compute_centroid(t.bboxes[i]))
    /\ [][\A id \in DOMAIN tm.tracks \cap DOMAIN tm'.tracks :
            (/\ IsUpdateStep
             /\ id \in DOMAIN lastUpdate'.detections
             /\ Len(tm.tracks[id].bboxes) = tm.tracks[id].max_history)
            => LET old == tm.tracks[id]
                   new == tm'.tracks[id]
                   bbox == lastUpdate'.detections[id][1]
               IN /\ new.bboxes = Append(Tail(old.bboxes), bbox)
                  /\ new.centroids = Append(Tail(old.centroids), compute_centroid(bbox))]_vars

\* a full history of two different boxes has just lost its oldest entry
C3_Witness ==
    \E t \in get_active_tracks(tm) :
        /\ t.max_history >= 2
        /\ t.total_frames > t.max_history
        /\ Len(t.bboxes) = t.max_history
        /\ t.bboxes[1] # t.bboxes[Len(t.bboxes)]
        /\ t.last_frame = Some(lastUpdate.frame_idx)

(* C4, as claimed.  Every track's pixel-speed history is one shorter than its
   centroid history (and empty when that is empty), also after more than
   max_history updates. *)
C4_SpeedHistoryOneShorter ==
    \A t \in AllTracks : Len(t.speeds_px) = Max(0, Len(t.centroids) - 1)

(* C4, amended.  The pixel-speed history is one shorter than the centroid
   history while the track has had at most max_history updates; after more
   than max_history >= 2 updates both histories are full and equally long. *)
C4_SpeedHistoryLength ==
    \A t \in AllTracks :
        IF t.total_frames > t.max_history /\ t.max_history >= 2
        THEN Len(t.speeds_px) = t.max_history /\ Len(t.centroids) = t.max_history
        ELSE Len(t.speeds_px) = Max(0, Len(t.centroids) - 1)

\* both histories of a track are full
C4_Witness ==
    \E t \in AllTracks :
        /\ t.total_frames > t.max_history
        /\ t.max_history >= 2
        /\ Len(t.speeds_px) = Len(t.centroids)

(* C5.  The tracks map and the track_ages map have the same keys. *)
C5_SameKeys == DOMAIN tm.tracks = DOMAIN tm.track_ages

\* one track was removed and archived while another stays tracked
C5_Witness ==
    /\ tm.completed_tracks # <<>>
    /\ DOMAIN tm.tracks # {}
    /\ \E i \in DOMAIN tm.completed_tracks :
          tm.completed_tracks[i].track_id \notin DOMAIN tm.tracks

(* C6.  An update() call evicts no id of its detections, and an id of its
   detections that had no track before the call (never seen, removed or
   evicted earlier) has afterwards a track holding the new observation only:
   one centroid, one bbox, no speed, first_frame = the frame of the call. *)
C6_NoStaleStateOnRecreation ==
    [][IsUpdateStep =>
        LET detections == lastUpdate'.detections
        IN /\ \A id \in DOMAIN detections : id \in DOMAIN tm'.tracks
           /\ Len(tm'.completed_tracks) >= Len(tm.completed_tracks)
           /\ \A i \in DOMAIN tm'.completed_tracks :
                 i > Len(tm.completed_tracks)
                 => tm'.completed_tracks[i].track_id \notin DOMAIN detections
           /\ \A id \in DOMAIN detections \ DOMAIN tm.tracks :
                 LET t == tm'.tracks[id]
                 IN /\ t.bboxes = <<detections[id][1]>>
                    /\ t.centroids = <<compute_centroid(detections[id][1])>>
                    /\ t.speeds_px = <<>>
                    /\ t.first_frame = Some(lastUpdate'.frame_idx)
                    /\ t.total_frames = 1
                    /\ t.is_active]_vars

\* an id whose earlier track was evicted by ageing has just been detected again
C6_Witness ==
    \E t \in get_active_tracks(tm) :
        /\ t.total_frames = 1
        /\ t.first_frame = Some(lastUpdate.frame_idx)
        /\ \E i \in DOMAIN tm.completed_tracks :
              /\ tm.completed_tracks[i].track_id = t.track_id
              /\ tm.completed_tracks[i].last_frame # None
              /\ tm.completed_tracks[i].last_frame[1] + tm.max_age + 1 <= lastUpdate.frame_idx - 1

----------------------------------------------------------------------------
(* Claims about the CongestionDetector *)

\* the step is a call of analyze(): it is the only one that replaces metrics
IsAnalyzeStep == metrics' # metrics

\* the weights passed to the last construction, and their sum
GivenWeights == ctor_args[1].weights

GivenSum == GivenWeights[1] + GivenWeights[2] + GivenWeights[3] + GivenWeights[4]

HeldWeights ==
    <<detector[1].density_weight, detector[1].speed_weight,
      detector[1].flow_weight, detector[1].queue_weight>>

InUnitInterval(x) == RLe(RZero, x) /\ RLe(x, ROne)

\* C7: analyze() on an empty track list returns, whatever the detector's state
\* (earlier analyses, customised thresholds, changed ROI), a snapshot with
\* vehicle_count 0, stopped_count 0, all sub-scores 0, congestion_score 0 and
\* level FREE_FLOW; it does not raise and leaves the detector as it was.
C7_EmptyListIsFreeFlow ==
    [][(IsAnalyzeStep /\ get_active_tracks(tm) = {}) =>
          /\ metrics'[1].vehicle_count = 0
          /\ metrics'[1].stopped_count = 0
          /\ metrics'[1].density_score = RZero
          /\ metrics'[1].speed_score = RZero
          /\ metrics'[1].flow_score = RZero
          /\ metrics'[1].congestion_score = RZero
          /\ metrics'[1].congestion_level = "FREE_FLOW"
          /\ raised' = None
          /\ detector' = detector]_vars

\* an empty list analysed at frame 2 by a detector that has analysed two
\* frames with vehicles, with customised thresholds and a changed ROI
C7_Witness ==
    /\ metrics # None /\ detector # None
    /\ metrics[1].frame_idx = 2
    /\ metrics[1].vehicle_count = 0
    /\ metrics[1].congestion_level = "FREE_FLOW"
    /\ get_active_tracks(tm) = {}
    /\ detector[1].flow_window_frames = 2
    /\ detector[1].thresholds = ExampleThresholds
    /\ detector[1].max_vehicles = 50 /\ detector[1].roi_area = 600

\* C8: for non-negative magnitudes and positive capacities each of the four
\* sub-score computations returns a value in [0,1].
C8_SubScoresInUnitInterval ==
    probe_out # None => InUnitInterval(probe_out[1].value)

\* C9 as stated: a construction with weights whose sum is not 1.0 fails and
\* yields no detector.
C9_AnySumOtherThanOneFails ==
    (ctor_args # None /\ GivenSum # Unit) =>
        (detector = None /\ raised = Some("ValueError"))

\* C9: a construction with weights whose sum differs from 1.0 by more than
\* the tolerance of np.isclose (more than one unit of 1e-5 here) fails with
\* ValueError and yields no detector; a detector that is constructed holds
\* exactly the weights it was given, whatever is called on it afterwards.
C9_SumOutsideToleranceFails ==
    ctor_args # None =>
        /\ Abs(GivenSum - Unit) > 1 => (detector = None /\ raised = Some("ValueError"))
        /\ detector # None => HeldWeights = GivenWeights

\* the construction with 0.4, 0.4, 0.4, 0.1 has failed
C9_Witness ==
    /\ ctor_args # None
    /\ GivenWeights = <<40000, 40000, 40000, 10000>>
    /\ detector = None
    /\ raised = Some("ValueError")

\* C10: the congestion_score of every CongestionMetrics returned by analyze()
\* of a successfully constructed detector lies in [0,1].
C10_CongestionScoreInUnitInterval ==
    metrics # None => InUnitInterval(metrics[1].congestion_score)

----------------------------------------------------------------------------
(* Claims about classification *)

\* the step is a direct call of classify_congestion
IsClassifyStep == probe_out' # None /\ UNCHANGED <<detector, probe_in>>

\* the level of a score s >= 0 by the bands [0,0.2) [0.2,0.4) [0.4,0.6)
\* [0.6,0.8) and everything from 0.8 up
DefaultBand(s) ==
    IF RLt(s, Rat(1, 5)) THEN "FREE_FLOW"
    ELSE IF RLt(s, Rat(2, 5)) THEN "LIGHT"
    ELSE IF RLt(s, Rat(3, 5)) THEN "MODERATE"
    ELSE IF RLt(s, Rat(4, 5)) THEN "HEAVY"
    ELSE "TRAFFIC_JAM"

\* C11: with the default threshold table classify_congestion maps every score
\* in [0,1] to the level of its half-open band, [0,0.2) FREE_FLOW, [0.2,0.4)
\* LIGHT, [0.4,0.6) MODERATE, [0.6,0.8) HEAVY, [0.8,1.0] TRAFFIC_JAM: a lower
\* bound belongs to the higher band, and a score at or above every upper bound
\* (1.0 included) is TRAFFIC_JAM.
C11_DefaultBands ==
    [][(IsClassifyStep /\ detector[1].thresholds = DefaultThresholds) =>
          probe_out'[1].value = DefaultBand(probe_in[1].congestion_score)]_vars

\* the score 1.0 has been classified with the default table
C11_Witness ==
    /\ probe_out # None /\ probe_in # None /\ detector # None
    /\ detector[1].thresholds = DefaultThresholds
    /\ probe_in[1].congestion_score = ROne
    /\ probe_out[1].value = "TRAFFIC_JAM"

----------------------------------------------------------------------------
(* Claims about the SpeedSmoother *)

\* the step is an add_speed() call
IsAddSpeedStep == n_calls' = n_calls + 1

\* the step is a reset() call
IsResetStep == fresh = None /\ fresh' # None

\* C12: for a SpeedSmoother(window 5, threshold 3.0) whose window holds
\* [10, 10, 10], add_speed(1000) appends the window mean 10 in place of the
\* sample, and the value returned stays close to 10 (within 1 of it).
C12_SpikeAfterConstantWindowIsReplaced ==
    [][(/\ IsAddSpeedStep
        /\ smoother[1].window_size = 5
        /\ smoother[1].outlier_threshold = RInt(3)
        /\ smoother[1].speed_history = <<RInt(10), RInt(10), RInt(10)>>
        /\ smooth_call'[1].speed = RInt(1000)) =>
          /\ smoother'[1].speed_history = <<RInt(10), RInt(10), RInt(10), RInt(10)>>
          /\ RLe(RInt(9), smooth_call'[1].returned)
          /\ RLe(smooth_call'[1].returned, RInt(11))]_vars

\* the sample that add_speed(raw) appends to the window h, by the rule of C19
C19_Appended(h, raw, threshold) ==
    IF /\ Len(h) > 2
       /\ RLt(RZero, Variance(h))
       /\ RLt(RMul(RSquare(threshold), Variance(h)), RSquare(RSub(raw, Mean(h))))
    THEN Mean(h)
    ELSE raw

\* C19: each add_speed(raw) appends exactly one value to the window: the
\* window's mean before the append if the window held more than 2 samples,
\* its standard deviation is > 0 and |raw - mean| / std exceeds
\* outlier_threshold, raw itself otherwise; the oldest sample is evicted when
\* the window is at capacity, so the window length after n calls is
\* min(n, window_size); the value returned is the mean of the window after
\* the append.
C19_AddSpeedAppendsOne ==
    [][IsAddSpeedStep =>
          LET h == smoother[1].speed_history
              kept == C19_Appended(h, smooth_call'[1].speed, smoother[1].outlier_threshold)
              after == smoother'[1].speed_history
          IN /\ after = (IF Len(h) = smoother[1].window_size THEN Tail(h) ELSE h) \o <<kept>>
             /\ Len(after) = Min(n_calls', smoother[1].window_size)
             /\ smooth_call'[1].returned = Mean(after)
             /\ smoother'[1].window_size = smoother[1].window_size
             /\ smoother'[1].outlier_threshold = smoother[1].outlier_threshold]_vars

\* a full window of 5 has evicted its oldest sample, and the spike 1000 just
\* added was replaced by the mean of the window before it
C19_Witness ==
    /\ smoother # None /\ smooth_call # None
    /\ smoother[1].window_size = 5
    /\ n_calls = 6
    /\ Len(smoother[1].speed_history) = 5
    /\ smooth_call[1].speed = RInt(1000)
    /\ smoother[1].speed_history[5] # RInt(1000)

\* C20: reset() empties the window, and the add_speed calls that follow it
\* leave the same window and return the same values as the same calls on a
\* smoother newly built with the same window_size and outlier_threshold.
C20_ResetIsFresh ==
    /\ [][IsResetStep => smoother'[1].speed_history = <<>>]_vars
    /\ [](fresh # None => (smoother = fresh /\ smooth_call = fresh_call))

\* after a reset of a used smoother, four calls have been made and the last,
\* a spike, was replaced by the window mean
C20_Witness ==
    /\ fresh # None /\ smooth_call # None
    /\ n_calls = 4
    /\ smooth_call[1].speed = RInt(1000)
    /\ smoother[1].speed_history[Len(smoother[1].speed_history)] # RInt(1000)

----------------------------------------------------------------------------
(* Claims about the speed estimators *)

\* twice the move of the bbox centre along axis k (1: x, 2: y)
TwiceMoved(move, k) == (move[2][k] + move[2][k + 2]) - (move[1][k] + move[1][k + 2])

\* C13: for a track whose bbox centre moves by d pixels between two
\* consecutive updates the pixel speed is d, and pixels_to_speed returns
\* (d / pixels_per_meter) * fps * 3.6; a move from (100,100) to (110,100) at
\* fps 30 and 20 pixels per metre gives pixel speed 10 and 54.0 km/h.
C13_PixelSpeedToKmh ==
    (est_call # None /\ est_call[1].method = "pixels_to_speed") =>
        LET move == est_call[1].args
            d == est_call[1].px[1]
        IN /\ RLe(RZero, d)
           /\ RSquare(RMul(RInt(2), d)) =
                 RInt(TwiceMoved(move, 1) * TwiceMoved(move, 1) + TwiceMoved(move, 2) * TwiceMoved(move, 2))
           /\ est_call[1].value =
                 Some(RMul(RMul(RDiv(d, estimator[1].pixels_per_meter), estimator[1].fps), Rat(36, 10)))
           /\ (/\ move = <<<<90, 90, 110, 110>>, <<100, 90, 120, 110>>>>
               /\ estimator[1].fps = RInt(30)
               /\ estimator[1].pixels_per_meter = RInt(20)) =>
                 (d = RInt(10) /\ est_call[1].value = Some(RInt(54)))

\* the move from (100,100) to (110,100) converted at fps 30, 20 px per metre
C13_Witness ==
    /\ est_call # None /\ estimator # None
    /\ est_call[1].method = "pixels_to_speed"
    /\ est_call[1].args = <<BoxA, BoxC>>
    /\ estimator[1].fps = RInt(30)
    /\ estimator[1].pixels_per_meter = RInt(20)
    /\ est_call[1].value = Some(RInt(54))

\* C14: a speed estimator of either kind constructed with fps <= 0 is
\* rejected: no estimator object holds a non-positive fps.
C14_NoEstimatorWithNonPositiveFps ==
    estimator # None => RLt(RZero, estimator[1].fps)

QueryMethods == {"image_to_world", "compute_world_distance", "homography_pixels_to_speed"}

\* the step is a call of one of the three queries of the homography estimator
IsQueryStep ==
    /\ est_call' # est_call
    /\ est_call' # None
    /\ est_call'[1].method \in QueryMethods

\* C15: a HomographySpeedEstimator constructed without point correspondences
\* has no transform; while there is none, image_to_world,
\* compute_world_distance and pixels_to_speed each raise ValueError and
\* leave the estimator unchanged; a transform appears only in a
\* compute_homography call, and with one the queries return values.
C15_QueriesNeedHomography ==
    /\ [][(/\ est_call' # est_call
           /\ est_call' # None
           /\ est_call'[1].method = "HomographySpeedEstimator"
           /\ est_call'[1].args[2] = None
           /\ estimator' # None) => estimator'[1].homography_matrix = None]_vars
    /\ [][(IsQueryStep /\ estimator[1].homography_matrix = None) =>
             /\ est_call'[1].raised = Some("ValueError")
             /\ est_call'[1].value = None
             /\ estimator' = estimator]_vars
    /\ [][(IsQueryStep /\ estimator[1].homography_matrix # None) =>
             /\ est_call'[1].raised = None
             /\ est_call'[1].value # None]_vars
    /\ [][(/\ estimator # None /\ estimator' # None
           /\ estimator[1].kind = "homography"
           /\ estimator[1].homography_matrix = None
           /\ estimator'[1].homography_matrix # None) =>
             est_call'[1].method = "compute_homography"]_vars

\* pixels_to_speed of a homography estimator without a transform has raised
C15_Witness ==
    /\ estimator # None /\ est_call # None
    /\ estimator[1].kind = "homography"
    /\ estimator[1].homography_matrix = None
    /\ est_call[1].method = "homography_pixels_to_speed"
    /\ est_call[1].raised = Some("ValueError")

----------------------------------------------------------------------------
(* Claims about degenerate bboxes and the density score *)

\* C16: detections with a zero-area or malformed bbox (x1 > x2) are accepted
\* by update(), and analyze() clamps their contribution to the summed bbox
\* area to zero: occupancy_ratio (the summed area over the ROI area) and the
\* density score are never negative.
C16_AreasClampedAtZero ==
    metrics # None =>
        /\ RLe(RZero, metrics[1].occupancy_ratio)
        /\ RLe(RZero, metrics[1].density_score)

\* the share x / cap of a capacity cap > 0, cut off at 1
C17_Share(x, cap) == IF x >= cap THEN ROne ELSE Rat(x, cap)

\* C17: the density score is the average of min(vehicle_count /
\* max_vehicles, 1.0) and min(total_bbox_area / roi_area, 1.0); with more
\* vehicles than max_vehicles (60 against 50) the count component is 1.0.
C17_DensityIsAverageOfClampedShares ==
    (probe_out # None /\ probe_out[1].method = "compute_density_score") =>
        probe_out[1].value =
            RDiv(RAdd(C17_Share(probe_in[1].vehicle_count, detector[1].max_vehicles),
                      C17_Share(probe_in[1].total_bbox_area, detector[1].roi_area)),
                 RInt(2))

\* 60 vehicles against max_vehicles = 50 and no bbox area: the score is 0.5
C17_Witness ==
    /\ probe_out # None /\ probe_in # None /\ detector # None
    /\ probe_out[1].method = "compute_density_score"
    /\ probe_in[1].vehicle_count = 60
    /\ detector[1].max_vehicles = 50
    /\ probe_in[1].total_bbox_area = 0
    /\ probe_out[1].value = Rat(1, 2)

----------------------------------------------------------------------------
(* Claims about replacing the threshold table *)

\* the step replaces the threshold table by a different one
IsCustomizeStep ==
    /\ detector # None /\ detector' # None
    /\ detector'[1].thresholds # detector[1].thresholds

\* the bands of a table that contain the score s
BandsHolding(thresholds, s) ==
    {i \in 1..Len(thresholds) :
        RLe(Rat(thresholds[i][2], Unit), s) /\ RLt(s, Rat(thresholds[i][3], Unit))}

\* the level of the first band of the table that contains s, the highest
\* level if none does
LevelBy(thresholds, s) ==
    IF BandsHolding(thresholds, s) = {} THEN "TRAFFIC_JAM"
    ELSE thresholds[CHOOSE i \in BandsHolding(thresholds, s) :
                       \A j \in BandsHolding(thresholds, s) : i <= j][1]

\* C18: customize_thresholds(T) leaves the CongestionMetrics returned before
\* it as they are, and every analyze() after it classifies with the table in
\* force, which only a customize_thresholds call replaces.
C18_ReplacedTableNotRetroactive ==
    /\ [][IsCustomizeStep => (metrics' = metrics /\ UNCHANGED trackerVars)]_vars
    /\ [][(IsAnalyzeStep /\ get_active_tracks(tm) # {}) =>
             /\ detector'[1].thresholds = detector[1].thresholds
             /\ metrics'[1].congestion_level =
                   LevelBy(detector[1].thresholds, metrics'[1].congestion_score)]_vars

\* a snapshot classified with the default table is still held, with its
\* level, after the table was replaced by one that would classify it otherwise
C18_Witness ==
    /\ detector # None /\ metrics # None
    /\ detector[1].thresholds = ExampleThresholds
    /\ metrics[1].vehicle_count > 0
    /\ metrics[1].congestion_level = LevelBy(DefaultThresholds, metrics[1].congestion_score)
    /\ metrics[1].congestion_level # LevelBy(ExampleThresholds, metrics[1].congestion_score)

----------------------------------------------------------------------------
(* Claims about one update() call *)

\* the history after is the history before with x appended, its oldest entry
\* dropped if it was at capacity cap >= 1
IsAppended(before, after, x, cap) ==
    after = (IF Len(before) = cap THEN Tail(before) ELSE before) \o <<x>>

\* the archive entries the step has added
NewlyArchived == {tm'.completed_tracks[i] : i \in (Len(tm.completed_tracks) + 1)..Len(tm'.completed_tracks)}

\* C21: in one update() call every detection with an unknown id creates a
\* track, every detection appends its observation to its track and sets the
\* id's miss-age to 0; every tracked id not among the detections has its
\* miss-age raised by exactly 1 and gets no history entry (the track is
\* evicted, as it was, when the raised age exceeds max_age); an empty
\* detection list creates nothing and ages every track by 1.
C21_UpdateStep ==
    [][IsUpdateStep =>
        LET detections == lastUpdate'.detections
            f == lastUpdate'.frame_idx
            unknown == DOMAIN detections \ DOMAIN tm.tracks
            missed == DOMAIN tm.tracks \ DOMAIN detections
        IN /\ tm'.total_tracks_created = tm.total_tracks_created + Cardinality(unknown)
           /\ DOMAIN tm'.tracks \subseteq DOMAIN tm.tracks \cup DOMAIN detections
           /\ \A id \in DOMAIN detections :
                 LET before == IF id \in unknown
                               THEN VehicleTrack_init(id, tm.max_history)
                               ELSE tm.tracks[id]
                     after == tm'.tracks[id]
                 IN /\ id \in DOMAIN tm'.tracks
                    /\ tm'.track_ages[id] = 0
                    /\ after.total_frames = before.total_frames + 1
                    /\ IsAppended(before.bboxes, after.bboxes, detections[id][1], tm.max_history)
                    /\ IsAppended(before.centroids, after.centroids,
                                  compute_centroid(detections[id][1]), tm.max_history)
                    /\ IsAppended(before.frame_indices, after.frame_indices, f, tm.max_history)
                    /\ after.last_frame = Some(f)
           /\ \A id \in missed :
                 IF tm.track_ages[id] + 1 > tm.max_age
                 THEN /\ id \notin DOMAIN tm'.tracks
                      /\ id \notin DOMAIN tm'.track_ages
                      /\ [tm.tracks[id] EXCEPT !.is_active = FALSE] \in NewlyArchived
                 ELSE /\ tm'.track_ages[id] = tm.track_ages[id] + 1
                      /\ tm'.tracks[id] = tm.tracks[id]
           /\ detections = <<>> => tm'.total_tracks_created = tm.total_tracks_created]_vars

\* the last update() detected id 1, tracked before, and missed the tracked
\* id 2 for the first time
C21_Witness ==
    /\ DOMAIN lastUpdate.detections = {1}
    /\ DOMAIN tm.tracks = {1, 2}
    /\ tm.tracks[1].total_frames >= 2
    /\ tm.tracks[1].last_frame = Some(lastUpdate.frame_idx)
    /\ tm.track_ages[1] = 0
    /\ tm.track_ages[2] = 1

\* what C22 says of the step, for the tracks of the given capacities
C22_SpeedSamples(capacities) ==
    IsUpdateStep =>
        LET detections == lastUpdate'.detections
        IN \A id \in DOMAIN detections :
              tm.max_history \in capacities =>
                  IF id \notin DOMAIN tm.tracks
                  THEN tm'.tracks[id].speeds_px = <<>>
                  ELSE LET before == tm.tracks[id]
                           after == tm'.tracks[id]
                           p == before.centroids[Len(before.centroids)]
                           q == after.centroids[Len(after.centroids)]
                           d == after.speeds_px[Len(after.speeds_px)]
                       IN /\ after.speeds_px # <<>>
                          /\ IsAppended(before.speeds_px, after.speeds_px, d, tm.max_history)
                          /\ d >= 0
                          /\ d * d = (q[1] - p[1]) * (q[1] - p[1]) + (q[2] - p[2]) * (q[2] - p[2])

\* C22 as stated: the first observation of a track appends no speed sample,
\* every later observation appends exactly one, the Euclidean distance between
\* the track's last two centroids, however many frames the track was missed.
C22_EveryLaterObservationAppends ==
    [][C22_SpeedSamples({tm.max_history})]_vars

\* C22 for tracks with max_history >= 2: the first observation appends no
\* speed sample, every later one appends exactly one, the Euclidean distance
\* between the track's last two centroids, undivided by the frames elapsed.
C22_LaterObservationAppendsWithRoomForTwo ==
    [][C22_SpeedSamples({h \in {tm.max_history} : h >= 2})]_vars

\* a track seen again after a frame in which it was missed holds the whole
\* displacement of 10 pixels as its newest speed sample
C22_Witness ==
    \E t \in get_active_tracks(tm) :
        /\ Len(t.frame_indices) >= 2
        /\ t.frame_indices[Len(t.frame_indices)] - t.frame_indices[Len(t.frame_indices) - 1] >= 2
        /\ t.speeds_px # <<>>
        /\ t.speeds_px[Len(t.speeds_px)] = 10

----------------------------------------------------------------------------
(* Claims about the speed score *)

\* C23: the speed score is 1 for an average speed of 0 or less, otherwise
\* 1 - min(average_speed / max_speed, 1); it never rises as a positive speed
\* rises, and it is 0 at max_speed and above.
C23_SpeedScore ==
    (probe_out # None /\ probe_out[1].method = "compute_speed_score") =>
        LET d == detector[1]
            s == probe_in[1].average_speed
            score == probe_out[1].value
        IN /\ RLe(s, RZero) => score = ROne
           /\ RLt(RZero, s) =>
                 /\ score = RSub(ROne, RMin(RDiv(s, RInt(d.max_speed)), ROne))
                 /\ \A faster \in ProbeMagnitudes :
                       RLe(s, faster) => RLe(compute_speed_score(d, faster), score)
                 /\ \A slower \in ProbeMagnitudes :
                       (RLt(RZero, slower) /\ RLe(slower, s)) => RLe(score, compute_speed_score(d, slower))
           /\ RLe(RInt(d.max_speed), s) => score = RZero

\* a speed of 30 against a max_speed of 5 scores 0, below the 1/2 that the
\* slower speed 5/2 scores
C23_Witness ==
    /\ probe_out # None
    /\ probe_out[1].method = "compute_speed_score"
    /\ detector[1].max_speed = 5
    /\ probe_in[1].average_speed = RInt(30)
    /\ probe_out[1].value = RZero
    /\ compute_speed_score(detector[1], Rat(5, 2)) = Rat(1, 2)

----------------------------------------------------------------------------
(* Claims about the flow window *)

IsNonEmptyAnalyzeStep == IsAnalyzeStep /\ get_active_tracks(tm) # {}

\* C24: over non-empty analyze() calls at a fixed fps the frame counter of the
\* flow window rises by one per call and is reset to 0 in the call where it
\* reaches fps * 60, so it stays in [0, fps * 60); a call that does not reset
\* reports vehicle_count / max(frames / (fps * 60), 1/60), which is at least
\* vehicle_count; the resetting call reports flow rate 0 and flow score 1
\* with vehicles present; vehicle_entry_count is 0 throughout.
C24_FlowWindow ==
    /\ [](detector # None =>
            /\ detector[1].flow_window_frames >= 0
            /\ RLt(RInt(detector[1].flow_window_frames), RMul(fps, RInt(60)))
            /\ detector[1].vehicle_entry_count = 0)
    /\ [][IsNonEmptyAnalyzeStep =>
            LET counted == detector[1].flow_window_frames + 1
                vehicle_count == Cardinality(get_active_tracks(tm))
                m == metrics'[1]
            IN /\ m.vehicle_count = vehicle_count
               /\ IF RLe(RMul(fps, RInt(60)), RInt(counted))
                  THEN /\ detector'[1].flow_window_frames = 0
                       /\ m.flow_rate = RZero
                       /\ m.flow_score = ROne
                  ELSE /\ detector'[1].flow_window_frames = counted
                       /\ m.flow_rate = RDiv(RInt(vehicle_count),
                                             RMax(RDiv(RInt(counted), RMul(fps, RInt(60))), Rat(1, 60)))
                       /\ RLe(RInt(vehicle_count), m.flow_rate)
               /\ detector'[1].vehicle_entry_count = 0]_vars

\* at one frame every 20 seconds the third analysis with vehicles in a row
\* reaches the window of 3 frames and resets it
C24_Witness ==
    /\ metrics # None /\ detector # None
    /\ fps = <<1, 20>>
    /\ metrics[1].frame_idx = 2
    /\ metrics[1].vehicle_count = 2
    /\ metrics[1].flow_rate = RZero
    /\ metrics[1].flow_score = ROne
    /\ detector[1].flow_window_frames = 0

\* C25: analyze() leaves every track and the TrackManager as they were; of
\* the detector's state it changes at most the two flow-window counters, and
\* on an empty list it changes nothing of the detector.
C25_AnalyzeKeepsTracks ==
    [][IsAnalyzeStep =>
          /\ tm' = tm
          /\ get_active_tracks(tm') = get_active_tracks(tm)
          /\ detector' # None
          /\ detector'[1] = [detector[1] EXCEPT !.flow_window_frames = detector'[1].flow_window_frames,
                                                !.vehicle_entry_count = detector'[1].vehicle_entry_count]
          /\ get_active_tracks(tm) = {} => detector' = detector]_vars

\* two analyses of one tracked vehicle have moved the frame counter to 2 and
\* the analysis of the emptied manager a frame later has left it there
C25_Witness ==
    /\ metrics # None /\ detector # None
    /\ metrics[1].frame_idx = 2
    /\ metrics[1].vehicle_count = 0
    /\ tm.total_tracks_created = 1
    /\ tm.total_tracks_completed = 1
    /\ tm.completed_tracks[1].total_frames = 1
    /\ detector[1].flow_window_frames = 2
    /\ detector[1].vehicle_entry_count = 0

----------------------------------------------------------------------------
(* Claims about the orchestrator *)

\* C26: an orchestrator constructed with an explicit roi_area has, from
\* setup_from_video() on, a CongestionDetector whose roi_area (the
\* denominator of the area density) is that roi_area, not
\* frame_width * frame_height.
C26_ExplicitRoiAreaKept ==
    (orchestrator # None /\ detector # None) =>
        (orchestrator[1].roi_area # None =>
            /\ detector[1].roi_area = orchestrator[1].roi_area[1]
            /\ metrics # None => metrics[1].roi_area = orchestrator[1].roi_area[1])

\* an orchestrator built with roi_area = 1000 analyses a 640 x 480 video
\* against an ROI of 307200 pixels
C26_RoiAreaReplaced ==
    /\ orchestrator # None /\ detector # None /\ metrics # None
    /\ orchestrator[1].roi_area = Some(1000)
    /\ orchestrator[1].frame_width = 640 /\ orchestrator[1].frame_height = 480
    /\ detector[1].roi_area = 307200
    /\ metrics[1].vehicle_count = 1
    /\ metrics[1].occupancy_ratio = Rat(400, 307200)

----------------------------------------------------------------------------
(* Claims about the manager's books *)

\* C27: after every update() the miss-age of each active track is an integer
\* from 0 to max_age, and it is 0 exactly for the ids detected in that call.
C27_AgesAfterUpdate ==
    [][IsUpdateStep =>
          /\ DOMAIN tm'.track_ages = DOMAIN tm'.tracks
          /\ \A id \in DOMAIN tm'.tracks :
                /\ tm'.track_ages[id] \in 0..tm'.max_age
                /\ tm'.track_ages[id] = 0 <=> id \in DOMAIN lastUpdate'.detections]_vars

\* with max_age = 2: track 1 detected in the latest update, track 2 missed
\* in the latest two and still active
C27_Witness ==
    /\ tm.max_age = 2
    /\ DOMAIN tm.tracks = {1, 2}
    /\ DOMAIN lastUpdate.detections = {1}
    /\ tm.track_ages[1] = 0
    /\ tm.track_ages[2] = 2

\* the ids whose tracks leave the manager in this step
LeavingIds == DOMAIN tm.tracks \ DOMAIN tm'.tracks

\* C28: after any sequence of update(), remove_track() and clear() calls the
\* tracks created less the tracks completed are the active tracks, the
\* archive is as long as total_tracks_completed, archived tracks are
\* inactive and active tracks active; remove_track() of an id that is not
\* active changes nothing; every track that leaves is archived exactly once.
C28_Books ==
    /\ [](/\ tm.total_tracks_created - tm.total_tracks_completed = Cardinality(DOMAIN tm.tracks)
          /\ Len(tm.completed_tracks) = tm.total_tracks_completed
          /\ \A i \in DOMAIN tm.completed_tracks : tm.completed_tracks[i].is_active = FALSE
          /\ \A id \in DOMAIN tm.tracks : tm.tracks[id].is_active = TRUE
          /\ \A id \in Ids \ DOMAIN tm.tracks : remove_track(tm, id) = tm)
    /\ [][/\ Len(tm'.completed_tracks) = Len(tm.completed_tracks) + Cardinality(LeavingIds)
          /\ SubSeq(tm'.completed_tracks, 1, Len(tm.completed_tracks)) = tm.completed_tracks
          /\ NewlyArchived = {[tm.tracks[id] EXCEPT !.is_active = FALSE] : id \in LeavingIds}]_vars

\* three tracks created: the first of id 1 removed by the owner, the one of
\* id 2 evicted, the second of id 1 active
C28_Witness ==
    /\ tm.total_tracks_created = 3
    /\ tm.total_tracks_completed = 2
    /\ Len(tm.completed_tracks) = 2
    /\ tm.completed_tracks[1].track_id = 1 /\ tm.completed_tracks[2].track_id = 2
    /\ tm.completed_tracks[1].last_frame = Some(0)
    /\ DOMAIN tm.tracks = {1}
    /\ tm.tracks[1].is_active

----------------------------------------------------------------------------
(* Claims about tracks seen once *)

AllSeenOnce(tracks) == tracks # {} /\ \A t \in tracks : t.total_frames = 1

\* C29: a track observed exactly once has no pixel-speed sample, an average
\* pixel speed of 0, and is stopped for every positive threshold; an
\* analysis of tracks that were all observed exactly once reports
\* queue_length 1 and speed_score 1.
C29_SeenOnceIsStopped ==
    /\ [](\A t \in get_active_tracks(tm) :
             t.total_frames = 1 =>
                 /\ t.speeds_px = <<>>
                 /\ get_average_speed_pixels(t, 5) = RZero
                 /\ \A threshold \in 1..3 : is_stopped(t, threshold))
    /\ [][(IsAnalyzeStep /\ AllSeenOnce(get_active_tracks(tm))) =>
             /\ detector[1].stopped_threshold > 0
             /\ metrics'[1].stopped_count = metrics'[1].vehicle_count
             /\ metrics'[1].average_speed = RZero
             /\ metrics'[1].queue_length = ROne
             /\ metrics'[1].speed_score = ROne]_vars

\* frame 1 analysed with the track created in it and the track of frame 0,
\* missed in frame 1: both queued, nothing moving
C29_Witness ==
    /\ metrics # None
    /\ metrics[1].frame_idx = 1
    /\ metrics[1].vehicle_count = 2
    /\ DOMAIN lastUpdate.detections = {2}
    /\ AllSeenOnce(get_active_tracks(tm))
    /\ tm.total_tracks_created = 2
    /\ metrics[1].queue_length = ROne
    /\ metrics[1].speed_score = ROne

----------------------------------------------------------------------------
(* Claims about the orchestrator's smoothers *)

IsComputeSpeedsStep == pc = "compute_speeds" /\ pc' # pc

\* the window of an id's smoother, empty while the id has none
WindowOf(o, id) ==
    IF id \in DOMAIN o.speed_smoothers THEN o.speed_smoothers[id].speed_history ELSE <<>>

\* what C30 says of one step, for the compute_speeds() calls that end in
\* one of the given ways
C30_Smoothers(endings) ==
    LET o == orchestrator[1]
        after == orchestrator'[1]
    IN /\ DOMAIN o.speed_smoothers \subseteq DOMAIN after.speed_smoothers
       /\ \A id \in DOMAIN o.speed_smoothers :
             \/ after.speed_smoothers[id] = o.speed_smoothers[id]
             \/ /\ IsComputeSpeedsStep
                /\ id \in DOMAIN tm.tracks
                /\ Len(WindowOf(after, id)) >= Len(WindowOf(o, id))
       /\ (IsComputeSpeedsStep /\ raised' \in endings) =>
             \A id \in DOMAIN tm.tracks :
                 LET window == WindowOf(after, id)
                 IN /\ id \in DOMAIN after.speed_smoothers
                    /\ window # <<>>
                    /\ IsAppended(WindowOf(o, id), window, window[Len(window)], 5)
                    /\ IsAppended(tm.tracks[id].speeds_real, tm'.tracks[id].speeds_real,
                                  Mean(window), tm.tracks[id].max_history)

\* C30: after every frame cycle each active id has one SpeedSmoother and
\* compute_speeds() has appended exactly one smoothed sample to speeds_real
\* of every active track, detected in the frame or not; no smoother is ever
\* removed or reset, so an id evicted and detected again goes on with the
\* window of the evicted track.
C30_OneSamplePerActiveTrack ==
    [][C30_Smoothers({None, Some("TypeError"), Some("ValueError")})]_vars

\* the same for the compute_speeds() calls that return
C30_OneSamplePerActiveTrackOnReturn ==
    [][C30_Smoothers({None})]_vars

\* track 1 evicted and detected again: its new track has one smoothed
\* sample, the smoother of id 1 a window of two
C30_WindowReused ==
    /\ orchestrator # None
    /\ pc = "analyze_congestion"
    /\ 1 \in DOMAIN tm.tracks
    /\ tm.total_tracks_completed = 1
    /\ tm.completed_tracks[1].track_id = 1
    /\ Len(tm.tracks[1].speeds_real) = 1
    /\ Len(WindowOf(orchestrator[1], 1)) = 2

\* homography requested without points: compute_speeds() has raised on a
\* track seen twice, which has a smoother and no sample of this frame
C30_RaisedWithoutSample ==
    /\ orchestrator # None
    /\ pc = "raised"
    /\ raised = Some("TypeError")
    /\ orchestrator[1].speed_estimator_type = "homography"
    /\ orchestrator[1].homography_points = None
    /\ \E id \in DOMAIN tm.tracks :
          /\ tm.tracks[id].total_frames = 2
          /\ Len(tm.tracks[id].speeds_real) = 1
          /\ id \in DOMAIN orchestrator[1].speed_smoothers

====
